---- MODULE Spec2Model ----
(***************************************************************************)
(* State-machine model of the AB1805 RTC / watchdog driver                 *)
(* (src/src/AB1805_RK.cpp, src/src/AB1805_RK.h).                            *)
(*                                                                         *)
(* The chip is a register file of 64 registers plus 256 bytes of RAM seen  *)
(* through the alternate RAM window.  Every driver call is one action; the *)
(* I2C transactions a call issues are threaded through a bus context       *)
(*   c = [regs, ram, n, log, depth]                                        *)
(* where n counts the transactions issued so far in the call, log records  *)
(* them and depth is the lock depth of the (recursive) bus lock.  A call   *)
(* takes a set F of transaction numbers: the transactions of the call      *)
(* whose number is in F fail (NAK or short read).                          *)
(***************************************************************************)
EXTENDS Integers, Sequences, FiniteSets, TLC

VARIABLES
    regs,                  \* chip registers 0x00..0x3f
    ram,                   \* chip RAM, 256 bytes
    clock,                 \* host uptime (4 ms units); millis() is clock mod 2^32 ms
    watchdogSecs,          \* AB1805::watchdogSecs
    lastWatchdogMillis,    \* AB1805::lastWatchdogMillis (4 ms units)
    watchdogUpdatePeriod,  \* AB1805::watchdogUpdatePeriod
    timeSet,               \* AB1805::timeSet
    wakeReason,            \* AB1805::wakeReason
    timeValid,             \* host: Time.isValid()
    timeSynced,            \* host: Particle.timeSyncedLast() != 0
    everSet,               \* history: setWDT(n > 0) was called on this handle
    autoAt,                \* history: clock of the last refresh done by loop(), -1 if none
    ticks,                 \* number of time advances so far
    ramOps,                \* number of RAM calls so far
    last,                  \* the call just made: arguments, result, transactions, state before
    before,                \* the call made before that one
    armOps,                \* number of configuration and arming calls so far
    pc,                    \* where the host is: "run", "polling" (inside deepPowerDown), "reset"
    poll,                  \* deepPowerDown's locals while it polls: start, seconds
    registered,            \* host: setup() has registered the handler of the reset event
    present,               \* a chip answers at the I2C address
    pushes                 \* history: number of loop() calls of this handle that called setRtcFromTime

vars == <<regs, ram, clock, watchdogSecs, lastWatchdogMillis, watchdogUpdatePeriod,
          timeSet, wakeReason, timeValid, timeSynced, everSet, autoAt, ticks,
          ramOps, last, before, armOps, pc, poll, registered, present, pushes>>

(***************************************************************************)
(* Bounds of the model                                                     *)
(***************************************************************************)
MaxFails == 1          \* at most this many transactions of one call fail
MaxFailAt == 6         \* a RAM call's failures are among its first MaxFailAt transactions
MaxAdvances == 2       \* at most this many time advances in a behaviour
MaxRamOps == 2         \* at most this many RAM calls in a behaviour
NumPatterns == 2       \* number of distinct data patterns written to RAM
MaxArmOps == 1         \* at most this many configuration and arming calls in a behaviour
MaxBcdInput == 120     \* valueToBcd is given the values 0..MaxBcdInput
MaxServiceTicks == 3   \* at most this many scheduled loop() calls in a behaviour

(***************************************************************************)
(* Register addresses and bit masks  (AB1805_RK.h)                          *)
(***************************************************************************)
REG_HUNDREDTH == 0
REG_STATUS == 15
REG_STATUS_WDT == 32
REG_STATUS_TIM == 8
REG_STATUS_ALM == 4
REG_CTRL_1 == 16
REG_CTRL_1_WRTC == 1
REG_CTRL_1_DEFAULT == 19
REG_CTRL_2 == 17
REG_CTRL_2_DEFAULT == 60
REG_INT_MASK == 18
REG_INT_MASK_DEFAULT == 224
REG_SQW == 19
REG_SQW_DEFAULT == 38
REG_SLEEP_CTRL == 23
REG_SLEEP_CTRL_SLST == 8
REG_TIMER_CTRL == 24
REG_TIMER_CTRL_DEFAULT == 35
REG_WDT == 27
REG_WDT_RESET == 128
REG_WDT_WRB_1_4_HZ == 3
REG_BREF_CTRL == 33
REG_BREF_CTRL_DEFAULT == 240
REG_BATMODE_IO == 39
REG_BATMODE_IO_DEFAULT == 128
REG_ID0 == 40
REG_ID0_AB18XX == 24
REG_ID1 == 41
REG_ID1_ABXX05 == 5
REG_EXT_ADDR == 63
REG_EXT_ADDR_XADA == 4
REG_EXT_ADDR_XADS == 3
REG_RAM == 64
REG_ALT_RAM == 128
RESET_PRESERVE_REPEATING_TIMER == 1
RESET_DISABLE_XT == 2
REG_HUNDREDTH_ALARM == 8
REG_STATUS_DEFAULT == 0
REG_CTRL_1_STOP == 128
REG_CTRL_1_OUT == 16
REG_CTRL_1_RSP == 8
REG_CTRL_1_PWR2 == 2
REG_CTRL_2_OUT2S_MASK == 28
REG_CTRL_2_OUT2S_SLEEP == 24
REG_CTRL_2_OUT1S_MASK == 3
REG_CTRL_2_OUT1S_nIRQ == 0
REG_CTRL_2_OUT1S_SQW == 1
REG_CTRL_2_OUT1S_nAIRQ == 3
REG_INT_MASK_TIE == 8
REG_INT_MASK_AIE == 4
REG_SLEEP_CTRL_SLP == 128
REG_SLEEP_CTRL_SLRES == 64
REG_SLEEP_CTRL_DEFAULT == 0
REG_TIMER_CTRL_TE == 128
REG_TIMER_CTRL_RPT_MASK == 28
REG_TIMER_CTRL_RPT_HUN == 28
REG_TIMER_CTRL_RPT_SEC == 24
REG_TIMER_CTRL_RPT_DATE == 8
REG_TIMER_CTRL_RPT_DIS == 0
REG_TIMER_CTRL_TFS_1 == 2
REG_TIMER_CTRL_TFS_1_60 == 3
REG_TIMER == 25
REG_TIMER_DEFAULT == 0
REG_TIMER_INITIAL == 26
REG_TIMER_INITIAL_DEFAULT == 0
REG_WDT_DEFAULT == 0
REG_OSC_CTRL == 28
REG_OSC_CTRL_OSEL == 128
REG_OSC_CTRL_FOS == 8
REG_OSC_CTRL_PWGT == 4
REG_OSC_CTRL_DEFAULT == 0
REG_TRICKLE == 32
REG_TRICKLE_TCS_ENABLE == 160
REG_TRICKLE_DIODE_0_3 == 4
REG_TRICKLE_ROUT_3K == 1
REG_CONFIG_KEY == 31
REG_CONFIG_KEY_OTHER == 157
REG_ASTAT == 47
REG_ASTAT_BBOD == 128
REG_ASTAT_BMIN == 64
REG_TRICKLE_DEFAULT == 0
REG_AFCTRL == 38
REG_AFCTRL_DEFAULT == 0
REG_OCTRL == 48
REG_OCTRL_O1EN == 1
REG_OCTRL_DEFAULT == 0

NumRegs == 64          \* registers 0x00..0x3f precede the RAM windows
RamSize == 256         \* AB1805::length()

\* Uptimes (clock, lastWatchdogMillis, autoAt) are held in units of 4 ms,
\* because 2^32 does not fit the integers of the model checker: unsigned long
\* wraps at 2^32 ms, which is 2^30 units.  Every uptime of the model and every
\* cadence (fourSecs * 2000 ms) is a multiple of 4 ms, so nothing is rounded.
Wrap32 == 2^30
Units(ms) == ms \div 4

(***************************************************************************)
(* Bit arithmetic on naturals                                              *)
(***************************************************************************)
RECURSIVE BitAnd(_, _)
BitAnd(a, b) ==
    IF a = 0 \/ b = 0 THEN 0
    ELSE (a % 2) * (b % 2) + 2 * BitAnd(a \div 2, b \div 2)

BitOr(a, b) == a + b - BitAnd(a, b)

\* ~x converted to uint8_t
Not8(x) == 255 - (x % 256)

\* conversion of an int expression to uint8_t
U8(x) == x % 256

(***************************************************************************)
(* Sets of failing transaction numbers                                     *)
(***************************************************************************)
RECURSIVE FailSetsUpTo(_, _)
FailSetsUpTo(k, m) ==
    IF m = 0 THEN {{}}
    ELSE LET smaller == FailSetsUpTo(k, m - 1)
         IN  smaller \cup {S \cup {i} : S \in smaller, i \in 1..k}

\* the transactions that fail among the k a call may issue: at most MaxFails
\* of them on a chip that answers, all of them when no chip answers
FailSets(k) == IF present THEN FailSetsUpTo(k, MaxFails) ELSE {1..k}

(***************************************************************************)
(* The chip as seen from the bus                                           *)
(***************************************************************************)
\* XADA: upper bit of the alternate RAM address
Xada(r) == (r[REG_EXT_ADDR] \div REG_EXT_ADDR_XADA) % 2

\* XADS: upper two bits of the standard RAM address
Xads(r) == r[REG_EXT_ADDR] % 4

\* RAM byte behind bus address addr (a RAM window address)
RamIndex(r, addr) ==
    IF addr >= REG_ALT_RAM THEN Xada(r) * 128 + (addr - REG_ALT_RAM)
    ELSE Xads(r) * 64 + (addr - REG_RAM)

ChipRead(c, addr) ==
    IF addr < NumRegs THEN c.regs[addr] ELSE c.ram[RamIndex(c.regs, addr)]

\* a sequential write of data starting at regAddr; the calendar registers
\* take a write only while WRTC is 1
ChipWrite(c, regAddr, data) ==
    LET num == Len(data)
        wrtc == c.regs[REG_CTRL_1] % 2
    IN  IF regAddr < NumRegs
        THEN [c EXCEPT !.regs =
                 [a \in 0..(NumRegs - 1) |->
                     IF a >= regAddr /\ a < regAddr + num /\ (a > 7 \/ wrtc = 1)
                     THEN data[a - regAddr + 1] ELSE c.regs[a]]]
        ELSE LET base == RamIndex(c.regs, regAddr)
             IN  [c EXCEPT !.ram =
                     [i \in 0..(RamSize - 1) |->
                         IF i >= base /\ i < base + num
                         THEN data[i - base + 1] ELSE c.ram[i]]]

(***************************************************************************)
(* Bus lock and register access layer                                      *)
(***************************************************************************)
Event(c, k, addr, num, data, ok) ==
    [k |-> k, addr |-> addr, num |-> num, data |-> data, ok |-> ok,
     xada |-> Xada(c.regs), depth |-> c.depth, wrtc |-> c.regs[REG_CTRL_1] % 2]

\* wire.lock()
Lock(c) ==
    LET c1 == [c EXCEPT !.depth = @ + 1]
    IN  [c1 EXCEPT !.log = Append(@, Event(c1, "lock", 0, 0, <<>>, TRUE))]

\* wire.unlock()
Unlock(c) ==
    LET c1 == [c EXCEPT !.depth = @ - 1]
    IN  [c1 EXCEPT !.log = Append(@, Event(c1, "unlock", 0, 0, <<>>, TRUE))]

LockIf(lock, c) == IF lock THEN Lock(c) ELSE c
UnlockIf(lock, c) == IF lock THEN Unlock(c) ELSE c

readRegisters(c, F, regAddr, num, lock) ==
    LET Transfer(c1) ==
            LET ok == (c1.n + 1) \notin F
                vals == IF ok THEN [i \in 1..num |-> ChipRead(c1, regAddr + i - 1)]
                        ELSE <<>>
                c2 == [c1 EXCEPT !.n = @ + 1,
                                 !.log = Append(@, Event(c1, "read", regAddr, num, vals, ok))]
            IN  [c |-> UnlockIf(lock, c2), ok |-> ok, data |-> vals]
    IN  Transfer(LockIf(lock, c))

readRegister(c, F, regAddr, lock) ==
    LET Value(r) == [c |-> r.c, ok |-> r.ok, value |-> IF r.ok THEN r.data[1] ELSE 0]
    IN  Value(readRegisters(c, F, regAddr, 1, lock))

writeRegisters(c, F, regAddr, array, lock) ==
    LET Transfer(c1) ==
            LET ok == (c1.n + 1) \notin F
                c2 == [(IF ok THEN ChipWrite(c1, regAddr, array) ELSE c1) EXCEPT
                          !.n = @ + 1,
                          !.log = Append(@, Event(c1, "write", regAddr, Len(array),
                                                  array, ok))]
            IN  [c |-> UnlockIf(lock, c2), ok |-> ok]
    IN  Transfer(LockIf(lock, c))

writeRegister(c, F, regAddr, value, lock) ==
    writeRegisters(c, F, regAddr, <<value>>, lock)

\* a read-modify-write that writes the result back whether or not it differs
maskRegisterAlways(c, F, regAddr, andValue, orValue, lock) ==
    LET Modify(r) ==
            IF r.ok
            THEN writeRegister(r.c, F, regAddr,
                               BitOr(BitAnd(r.value, andValue), orValue), FALSE)
            ELSE [c |-> r.c, ok |-> r.ok]
        Release(w) == [c |-> UnlockIf(lock, w.c), ok |-> w.ok]
    IN  Release(Modify(readRegister(LockIf(lock, c), F, regAddr, FALSE)))

maskRegister(c, F, regAddr, andValue, orValue, lock) ==
    LET Modify(r) ==
            LET newValue == BitOr(BitAnd(r.value, andValue), orValue)
            IN  IF r.ok /\ newValue # r.value
                THEN writeRegister(r.c, F, regAddr, newValue, FALSE)
                ELSE [c |-> r.c, ok |-> r.ok]
        Release(w) == [c |-> UnlockIf(lock, w.c), ok |-> w.ok]
    IN  Release(Modify(readRegister(LockIf(lock, c), F, regAddr, FALSE)))

isBitClear(c, F, regAddr, bitMask, lock) ==
    LET Test(r) == [c |-> r.c, result |-> r.ok /\ BitAnd(r.value, bitMask) = 0]
    IN  Test(readRegister(c, F, regAddr, lock))

isBitSet(c, F, regAddr, bitMask, lock) ==
    LET Test(r) == [c |-> r.c, result |-> r.ok /\ BitAnd(r.value, bitMask) # 0]
    IN  Test(readRegister(c, F, regAddr, lock))

clearRegisterBit(c, F, regAddr, bitMask, lock) ==
    maskRegister(c, F, regAddr, Not8(bitMask), 0, lock)

setRegisterBit(c, F, regAddr, bitMask, lock) ==
    maskRegister(c, F, regAddr, 255, bitMask, lock)

(***************************************************************************)
(* Wake-reason resolver                                                    *)
(***************************************************************************)
\* returns the bus context, the return value, the new AB1805::wakeReason and
\* the local variable reason ("" while it is the null pointer)
updateWakeReason(c, F, wr) ==
    LET Report(c1, reason) ==
            [c |-> c1, ok |-> TRUE, wakeReason |-> reason, reason |-> reason]
        Rest(status, slst) ==
            IF slst.result
            THEN Report(slst.c, "DEEP_POWER_DOWN")
            ELSE IF BitAnd(status, REG_STATUS_TIM) # 0
            THEN Report(clearRegisterBit(slst.c, F, REG_STATUS, REG_STATUS_TIM, TRUE).c,
                        "COUNTDOWN_TIMER")
            ELSE IF BitAnd(status, REG_STATUS_ALM) # 0
            THEN Report(clearRegisterBit(slst.c, F, REG_STATUS, REG_STATUS_ALM, TRUE).c,
                        "ALARM")
            ELSE [c |-> slst.c, ok |-> TRUE, wakeReason |-> wr, reason |-> ""]
        Resolve(s) ==
            IF ~s.ok
            THEN [c |-> s.c, ok |-> FALSE, wakeReason |-> wr, reason |-> ""]
            ELSE IF BitAnd(s.value, REG_STATUS_WDT) # 0
            THEN Report(clearRegisterBit(s.c, F, REG_STATUS, REG_STATUS_WDT, TRUE).c,
                        "WATCHDOG")
            ELSE Rest(s.value,
                      isBitSet(s.c, F, REG_SLEEP_CTRL, REG_SLEEP_CTRL_SLST, TRUE))
    IN  Resolve(readRegister(c, F, REG_STATUS, TRUE))

(***************************************************************************)
(* Watchdog controller                                                     *)
(***************************************************************************)
\* the period field clamped from below only
FourSecsUnbounded(seconds) ==
    LET fourSecs == seconds \div 4
    IN  IF fourSecs < 1 THEN 1 ELSE fourSecs

\* the period field: seconds / 4 clamped to 1..31
FourSecs(seconds) ==
    LET fourSecs == seconds \div 4
    IN  IF fourSecs < 1 THEN 1 ELSE IF fourSecs > 31 THEN 31 ELSE fourSecs

\* the value setWDT writes to REG_WDT for a period field
WdtValue(fourSecs) ==
    U8(BitOr(BitOr(REG_WDT_RESET, fourSecs * 4), REG_WDT_WRB_1_4_HZ))

\* a cadence of the whole period instead of half of it
UpdatePeriodWhole(fourSecs) == fourSecs * 4000

\* the refresh cadence in ms for a period field
UpdatePeriod(fourSecs) == fourSecs * 2000

\* setWDT(secondsArg) on a handle whose watchdogSecs is wdSecs
setWDT(c, F, secondsArg, wdSecs) ==
    LET seconds == IF secondsArg < 0 THEN wdSecs ELSE secondsArg
        Result(w, secs, period) ==
            [c |-> w.c, ok |-> w.ok, watchdogSecs |-> secs,
             watchdogUpdatePeriod |-> period]
    IN  IF seconds = 0
        THEN Result(writeRegister(c, F, REG_WDT, 0, TRUE), 0, 0)
        ELSE Result(writeRegister(c, F, REG_WDT, WdtValue(FourSecs(seconds)), TRUE),
                    seconds, UpdatePeriod(FourSecs(seconds)))

\* systemEvent(reset, param) on a handle whose watchdog fields are wdSecs and
\* period; ok is TRUE when it made no call that failed
systemEvent(c, F, wdSecs, period) ==
    IF wdSecs # 0
    THEN setWDT(c, F, 0, wdSecs)
    ELSE [c |-> c, ok |-> TRUE, watchdogSecs |-> wdSecs, watchdogUpdatePeriod |-> period]

(***************************************************************************)
(* Time codec                                                              *)
(***************************************************************************)
bcdToValue(bcd) == (bcd \div 16) * 10 + (bcd % 16)

\* the value as a byte, without conversion to decimal digits
valueToBcdBinary(value) == U8(value)

valueToBcd(value) ==
    LET tens == (value \div 10) % 10
        ones == value % 10
    IN  U8(BitOr(tens * 16, ones))

\* the calendar registers with the month as struct tm holds it
tmToRegistersMonthAsIs(t, includeYear) ==
    <<valueToBcd(t.sec), valueToBcd(t.min), valueToBcd(t.hour), valueToBcd(t.mday),
      valueToBcd(t.mon)>>
    \o (IF includeYear THEN <<valueToBcd(t.year % 100)>> ELSE <<>>)
    \o <<valueToBcd(t.wday)>>

tmToRegisters(t, includeYear) ==
    <<valueToBcd(t.sec), valueToBcd(t.min), valueToBcd(t.hour), valueToBcd(t.mday),
      valueToBcd(t.mon + 1)>>
    \o (IF includeYear THEN <<valueToBcd(t.year % 100)>> ELSE <<>>)
    \o <<valueToBcd(t.wday)>>

\* the fields registersToTm assigns; without the year tm_year is left as it was
registersToTm(array, includeYear, oldYear) ==
    [sec |-> bcdToValue(array[1]), min |-> bcdToValue(array[2]),
     hour |-> bcdToValue(array[3]), mday |-> bcdToValue(array[4]),
     mon |-> bcdToValue(array[5]) - 1,
     year |-> IF includeYear THEN bcdToValue(array[6]) + 100 ELSE oldYear,
     wday |-> bcdToValue(array[IF includeYear THEN 7 ELSE 6])]

ZeroTm == [sec |-> 0, min |-> 0, hour |-> 0, mday |-> 0, mon |-> 0, year |-> 0, wday |-> 0]

(***************************************************************************)
(* RTC set / get                                                           *)
(***************************************************************************)
\* the calendar written without the write-RTC bit being set first
setRtcFromTmUnguarded(c, F, t, lock) ==
    LET AfterWrite(w) ==
            IF ~w.ok THEN [c |-> w.c, ok |-> FALSE]
            ELSE [c |-> clearRegisterBit(w.c, F, REG_CTRL_1, REG_CTRL_1_WRTC, TRUE).c,
                  ok |-> TRUE]
        Release(r) == [c |-> UnlockIf(lock, r.c), ok |-> r.ok]
    IN  Release(AfterWrite(writeRegisters(LockIf(lock, c), F, REG_HUNDREDTH,
                                          <<0>> \o tmToRegisters(t, TRUE), FALSE)))

setRtcFromTm(c, F, t, lock) ==
    LET AfterWrite(w) ==
            IF ~w.ok THEN [c |-> w.c, ok |-> FALSE]
            ELSE [c |-> clearRegisterBit(w.c, F, REG_CTRL_1, REG_CTRL_1_WRTC, TRUE).c,
                  ok |-> TRUE]
        AfterSet(s) ==
            IF ~s.ok THEN [c |-> s.c, ok |-> FALSE]
            ELSE AfterWrite(writeRegisters(s.c, F, REG_HUNDREDTH,
                                           <<0>> \o tmToRegisters(t, TRUE), FALSE))
        Release(r) == [c |-> UnlockIf(lock, r.c), ok |-> r.ok]
    IN  Release(AfterSet(setRegisterBit(LockIf(lock, c), F, REG_CTRL_1,
                                        REG_CTRL_1_WRTC, TRUE)))

getRtcAsTm(c, F) ==
    LET Convert(r) ==
            IF ~r.ok THEN [c |-> r.c, ok |-> FALSE, tm |-> ZeroTm]
            ELSE [c |-> r.c, ok |-> TRUE, tm |-> registersToTm(Tail(r.data), TRUE, 0)]
        Read(b) ==
            IF ~b.result THEN [c |-> b.c, ok |-> FALSE, tm |-> ZeroTm]
            ELSE Convert(readRegisters(b.c, F, REG_HUNDREDTH, 8, TRUE))
    IN  Read(isBitClear(c, F, REG_CTRL_1, REG_CTRL_1_WRTC, TRUE))

(***************************************************************************)
(* Periodic tick                                                           *)
(***************************************************************************)
\* millis()
Millis(clk) == clk % Wrap32

\* a comparison of the uptime itself, not of the time since the last refresh
RefreshDueAbsolute(now, lastMillis, period) == now >= Units(period)

\* millis() - lastWatchdogMillis >= watchdogUpdatePeriod, in unsigned long
RefreshDue(now, lastMillis, period) ==
    (now - lastMillis + Wrap32) % Wrap32 >= Units(period)

\* a push of the host time whenever it is valid and synchronised
PushDueAgain(set, tValid, tSynced) == tValid /\ tSynced

\* !timeSet && Time.isValid() && Particle.timeSyncedLast() != 0
PushDue(set, tValid, tSynced) == ~set /\ tValid /\ tSynced

\* loop() at uptime clk; t is gmtime(Time.now()); h holds the handle fields
loop(c, F, clk, t, h, tValid, tSynced) ==
    LET push == PushDue(h.timeSet, tValid, tSynced)
        due == h.watchdogUpdatePeriod # 0
               /\ RefreshDue(Millis(clk), h.lastWatchdogMillis, h.watchdogUpdatePeriod)
        Refreshed(w) ==
            [c |-> w.c, timeSet |-> h.timeSet \/ push, pushed |-> push, refreshed |-> TRUE,
             lastWatchdogMillis |-> Millis(clk), watchdogSecs |-> w.watchdogSecs,
             watchdogUpdatePeriod |-> w.watchdogUpdatePeriod]
        Service(c1) ==
            IF due
            THEN Refreshed(setWDT(c1, F, -1, h.watchdogSecs))
            ELSE [c |-> c1, timeSet |-> h.timeSet \/ push, pushed |-> push,
                  refreshed |-> FALSE,
                  lastWatchdogMillis |-> h.lastWatchdogMillis,
                  watchdogSecs |-> h.watchdogSecs,
                  watchdogUpdatePeriod |-> h.watchdogUpdatePeriod]
    IN  Service(IF push THEN getRtcAsTm(setRtcFromTm(c, F, t, TRUE).c, F).c ELSE c)

(***************************************************************************)
(* RAM store                                                               *)
(***************************************************************************)
RECURSIVE readRamLoop(_, _, _, _, _)
readRamLoop(c, F, ramAddr, dataLen, data) ==
    IF dataLen = 0 THEN [c |-> c, ok |-> TRUE, data |-> data]
    ELSE LET count0 == IF dataLen > 32 THEN 32 ELSE dataLen
             count == IF ramAddr < 128 /\ ramAddr + count0 > 128
                      THEN 128 - ramAddr ELSE count0
             Continue(r) ==
                 IF ~r.ok THEN [c |-> r.c, ok |-> FALSE, data |-> data]
                 ELSE readRamLoop(r.c, F, ramAddr + count, dataLen - count,
                                  data \o r.data)
             Chunk(m) ==
                 Continue(readRegisters(m.c, F, REG_ALT_RAM + BitAnd(ramAddr, 127),
                                        count, FALSE))
         IN  IF ramAddr < 128
             THEN Chunk(clearRegisterBit(c, F, REG_EXT_ADDR, REG_EXT_ADDR_XADA, TRUE))
             ELSE Chunk(setRegisterBit(c, F, REG_EXT_ADDR, REG_EXT_ADDR_XADA, TRUE))

\* a return on failure that leaves out wire.unlock()
readRamHeldOnFailure(c, F, ramAddr, dataLen, lock) ==
    LET Release(r) == [c |-> IF r.ok THEN UnlockIf(lock, r.c) ELSE r.c, ok |-> r.ok,
                       data |-> r.data]
    IN  Release(readRamLoop(LockIf(lock, c), F, ramAddr, dataLen, <<>>))

\* data holds the bytes stored into the caller's buffer
readRam(c, F, ramAddr, dataLen, lock) ==
    LET Release(r) == [c |-> UnlockIf(lock, r.c), ok |-> r.ok, data |-> r.data]
    IN  Release(readRamLoop(LockIf(lock, c), F, ramAddr, dataLen, <<>>))

RECURSIVE writeRamLoop(_, _, _, _)
writeRamLoop(c, F, ramAddr, data) ==
    IF Len(data) = 0 THEN [c |-> c, ok |-> TRUE]
    ELSE LET dataLen == Len(data)
             count0 == IF dataLen > 31 THEN 31 ELSE dataLen
             count == IF ramAddr < 128 /\ ramAddr + count0 > 128
                      THEN 128 - ramAddr ELSE count0
             Continue(w) ==
                 IF ~w.ok THEN [c |-> w.c, ok |-> FALSE]
                 ELSE writeRamLoop(w.c, F, ramAddr + count,
                                   SubSeq(data, count + 1, dataLen))
             Chunk(m) ==
                 Continue(writeRegisters(m.c, F, REG_ALT_RAM + BitAnd(ramAddr, 127),
                                         SubSeq(data, 1, count), FALSE))
         IN  IF ramAddr < 128
             THEN Chunk(clearRegisterBit(c, F, REG_EXT_ADDR, REG_EXT_ADDR_XADA, TRUE))
             ELSE Chunk(setRegisterBit(c, F, REG_EXT_ADDR, REG_EXT_ADDR_XADA, TRUE))

\* the chunks written without a lock around the whole call
writeRamStepwise(c, F, ramAddr, data, lock) == writeRamLoop(c, F, ramAddr, data)

writeRam(c, F, ramAddr, data, lock) ==
    LET Release(w) == [c |-> UnlockIf(lock, w.c), ok |-> w.ok]
    IN  Release(writeRamLoop(LockIf(lock, c), F, ramAddr, data))

RECURSIVE eraseRamLoop(_, _, _)
eraseRamLoop(c, F, ii) ==
    IF ii = 16 THEN [c |-> c, ok |-> TRUE]
    ELSE LET Continue(w) ==
                 IF ~w.ok THEN [c |-> w.c, ok |-> FALSE]
                 ELSE eraseRamLoop(w.c, F, ii + 1)
         IN  Continue(writeRam(c, F, ii * 16, [i \in 1..16 |-> 0], FALSE))

eraseRam(c, F, lock) ==
    LET Release(e) == [c |-> UnlockIf(lock, e.c), ok |-> e.ok]
    IN  Release(eraseRamLoop(LockIf(lock, c), F, 0))

(***************************************************************************)
(* Configuration reset, alarm and countdown timer                          *)
(***************************************************************************)
\* the result of a step whose return value the caller does not test
Ignored(w) == w.c

\* the and-mask resetConfig passes with RESET_PRESERVE_REPEATING_TIMER
RepeatKeepMask == Not8(REG_TIMER_CTRL_RPT_MASK)

\* resetConfig(flags); it tests no result and returns true
resetConfig(c, F, flags) ==
    LET preserve == (flags \div RESET_PRESERVE_REPEATING_TIMER) % 2 = 1
        disableXT == (flags \div RESET_DISABLE_XT) % 2 = 1
        oscCtrl == IF disableXT
                   THEN BitOr(REG_OSC_CTRL_DEFAULT,
                              BitOr(REG_OSC_CTRL_OSEL, REG_OSC_CTRL_FOS))
                   ELSE REG_OSC_CTRL_DEFAULT
        \* the step after one whose result is not tested
        Anyway(w, Op(_)) == IF w.ok \in BOOLEAN THEN Op(w.c) ELSE w
        Put(c1, regAddr, value) == writeRegister(c1, F, regAddr, value, FALSE)
        TimerCtrl(c1) ==
            IF preserve
            THEN maskRegister(c1, F, REG_TIMER_CTRL, RepeatKeepMask,
                              BitAnd(REG_TIMER_CTRL_DEFAULT, RepeatKeepMask), FALSE)
            ELSE Put(c1, REG_TIMER_CTRL, REG_TIMER_CTRL_DEFAULT)
    IN  Anyway(Put(Lock(c), REG_STATUS, REG_STATUS_DEFAULT), LAMBDA c1 :
        Anyway(Put(c1, REG_CTRL_1, REG_CTRL_1_DEFAULT), LAMBDA c2 :
        Anyway(Put(c2, REG_CTRL_2, REG_CTRL_2_DEFAULT), LAMBDA c3 :
        Anyway(Put(c3, REG_INT_MASK, REG_INT_MASK_DEFAULT), LAMBDA c4 :
        Anyway(Put(c4, REG_SQW, REG_SQW_DEFAULT), LAMBDA c5 :
        Anyway(Put(c5, REG_SLEEP_CTRL, REG_SLEEP_CTRL_DEFAULT), LAMBDA c6 :
        Anyway(TimerCtrl(c6), LAMBDA c7 :
        Anyway(Put(c7, REG_TIMER, REG_TIMER_DEFAULT), LAMBDA c8 :
        Anyway(Put(c8, REG_TIMER_INITIAL, REG_TIMER_INITIAL_DEFAULT), LAMBDA c9 :
        Anyway(Put(c9, REG_WDT, REG_WDT_DEFAULT), LAMBDA c10 :
        Anyway(Put(c10, REG_OSC_CTRL, oscCtrl), LAMBDA c11 :
        Anyway(Put(c11, REG_TRICKLE, REG_TRICKLE_DEFAULT), LAMBDA c12 :
        Anyway(Put(c12, REG_BREF_CTRL, REG_BREF_CTRL_DEFAULT), LAMBDA c13 :
        Anyway(Put(c13, REG_AFCTRL, REG_AFCTRL_DEFAULT), LAMBDA c14 :
        Anyway(Put(c14, REG_BATMODE_IO, REG_BATMODE_IO_DEFAULT), LAMBDA c15 :
        Anyway(Put(c15, REG_OCTRL, REG_OCTRL_DEFAULT), LAMBDA c16 :
        [c |-> Unlock(c16), ok |-> TRUE]))))))))))))))))

\* the duration as a plain conversion of the argument to a byte
TimerDurationCast(value) == U8(value)

\* the duration setCountdownTimer writes: value limited to 1..255
TimerDuration(value) ==
    IF value < 1 THEN 1 ELSE IF value > 255 THEN 255 ELSE value

\* the TFS field: 1/60 Hz for minutes, 1 Hz for seconds
TimerClock(minutes) ==
    IF minutes THEN REG_TIMER_CTRL_TFS_1_60 ELSE REG_TIMER_CTRL_TFS_1

\* a stop value that leaves the timer enabled
TimerStopEnabled == BitOr(REG_TIMER_CTRL_DEFAULT, REG_TIMER_CTRL_TE)

\* the value setCountdownTimer writes to stop a running timer
TimerStop == REG_TIMER_CTRL_DEFAULT

setCountdownTimer(c, F, value, minutes) ==
    \* a step that failed ends the operation with false
    LET AndThen(w, Op(_)) == IF w.ok THEN Op(w.c) ELSE [c |-> w.c, ok |-> FALSE]
    IN  AndThen(writeRegister(c, F, REG_STATUS, REG_STATUS_DEFAULT, TRUE), LAMBDA c1 :
        AndThen(writeRegister(c1, F, REG_TIMER_CTRL, TimerStop, TRUE), LAMBDA c2 :
        AndThen(writeRegister(c2, F, REG_TIMER, U8(TimerDuration(value)), TRUE), LAMBDA c3 :
        AndThen(setRegisterBit(c3, F, REG_INT_MASK, REG_INT_MASK_TIE, TRUE), LAMBDA c4 :
        AndThen(writeRegister(c4, F, REG_TIMER_CTRL,
                              BitOr(REG_TIMER_CTRL_TE, TimerClock(minutes)), TRUE),
                LAMBDA c5 : [c |-> c5, ok |-> TRUE])))))

\* the result of a composite operation that starts with setWDT(0): the handle
\* fields are those setWDT left (result s), the bus context and return value
\* those of the steps after it (result w)
WithHandle(s, w) ==
    [c |-> w.c, ok |-> w.ok, watchdogSecs |-> s.watchdogSecs,
     watchdogUpdatePeriod |-> s.watchdogUpdatePeriod]

interruptCountdownTimer(c, F, value, minutes, wdSecs) ==
    \* a step that failed ends the operation with false
    LET AndThen(w, Op(_)) == IF w.ok THEN Op(w.c) ELSE [c |-> w.c, ok |-> FALSE]
        AfterSetWDT(s, Op(_)) == WithHandle(s, AndThen(s, Op))
    IN  AfterSetWDT(setWDT(c, F, 0, wdSecs), LAMBDA c1 :
        AndThen(maskRegister(c1, F, REG_CTRL_2, Not8(REG_CTRL_2_OUT1S_MASK),
                             REG_CTRL_2_OUT1S_nIRQ, TRUE), LAMBDA c2 :
        setCountdownTimer(c2, F, value, minutes)))

\* the match selector written without the other bits of the register
RepeatSelectWhole(c, F, rptValue) ==
    writeRegister(c, F, REG_TIMER_CTRL, BitAnd(rptValue, REG_TIMER_CTRL_RPT_MASK), TRUE)

\* the last step of repeatingInterrupt: the match selector enables the alarm
RepeatSelect(c, F, rptValue) ==
    maskRegister(c, F, REG_TIMER_CTRL, Not8(REG_TIMER_CTRL_RPT_MASK),
                 BitAnd(rptValue, REG_TIMER_CTRL_RPT_MASK), TRUE)

repeatingInterrupt(c, F, t, rptValue, wdSecs) ==
    \* a step that failed ends the operation with false
    LET AndThen(w, Op(_)) == IF w.ok THEN Op(w.c) ELSE [c |-> w.c, ok |-> FALSE]
        AfterSetWDT(s, Op(_)) == WithHandle(s, AndThen(s, Op))
        Dump(c1) ==
            Ignored(readRegisters(
                Ignored(readRegisters(c1, F, REG_HUNDREDTH_ALARM, 7, TRUE)),
                F, REG_HUNDREDTH, 8, TRUE))
    IN  AfterSetWDT(setWDT(c, F, 0, wdSecs), LAMBDA c1 :
        AndThen(clearRegisterBit(c1, F, REG_STATUS, REG_STATUS_ALM, TRUE), LAMBDA c2 :
        AndThen(writeRegisters(c2, F, REG_HUNDREDTH_ALARM,
                               <<0>> \o tmToRegisters(t, FALSE), TRUE), LAMBDA c3 :
        AndThen(maskRegister(Dump(c3), F, REG_CTRL_2, Not8(REG_CTRL_2_OUT1S_MASK),
                             REG_CTRL_2_OUT1S_nAIRQ, TRUE), LAMBDA c4 :
        AndThen(setRegisterBit(c4, F, REG_INT_MASK, REG_INT_MASK_AIE, TRUE), LAMBDA c5 :
        RepeatSelect(c5, F, rptValue))))))

interruptAtTm(c, F, t, wdSecs) ==
    repeatingInterrupt(c, F, t, REG_TIMER_CTRL_RPT_DATE, wdSecs)

clearRepeatingInterrupt(c, F) ==
    \* a step that failed ends the operation with false
    LET AndThen(w, Op(_)) == IF w.ok THEN Op(w.c) ELSE [c |-> w.c, ok |-> FALSE]
    IN  AndThen(maskRegister(c, F, REG_CTRL_2, Not8(REG_CTRL_2_OUT1S_MASK),
                             REG_CTRL_2_OUT1S_nIRQ, TRUE), LAMBDA c1 :
        AndThen(clearRegisterBit(c1, F, REG_INT_MASK, REG_INT_MASK_AIE, TRUE), LAMBDA c2 :
        maskRegister(c2, F, REG_TIMER_CTRL, Not8(REG_TIMER_CTRL_RPT_MASK),
                     REG_TIMER_CTRL_RPT_DIS, TRUE)))

(***************************************************************************)
(* Deep power down                                                         *)
(***************************************************************************)
\* a sleep request that leaves nRST alone
SleepRequestNoReset == REG_SLEEP_CTRL_SLP

\* the value deepPowerDown writes to REG_SLEEP_CTRL: sleep, nRST low on sleep
SleepRequest == BitOr(REG_SLEEP_CTRL_SLP, REG_SLEEP_CTRL_SLRES)

\* deepPowerDown(seconds) up to the sleep request, SET_D8_LOW being defined
deepPowerDown(c, F, seconds, wdSecs) ==
    \* a step that failed ends the operation with false
    LET AndThen(w, Op(_)) == IF w.ok THEN Op(w.c) ELSE [c |-> w.c, ok |-> FALSE]
        AfterSetWDT(s, Op(_)) == WithHandle(s, AndThen(s, Op))
    IN  AfterSetWDT(setWDT(c, F, 0, wdSecs), LAMBDA c1 :
        AndThen(setRegisterBit(c1, F, REG_OCTRL, REG_OCTRL_O1EN, TRUE), LAMBDA c2 :
        AndThen(clearRegisterBit(c2, F, REG_CTRL_1, REG_CTRL_1_OUT, TRUE), LAMBDA c3 :
        AndThen(writeRegister(c3, F, REG_SQW, REG_SQW_DEFAULT, TRUE), LAMBDA c4 :
        AndThen(maskRegister(c4, F, REG_CTRL_2, Not8(REG_CTRL_2_OUT1S_MASK),
                             REG_CTRL_2_OUT1S_SQW, TRUE), LAMBDA c5 :
        AndThen(setCountdownTimer(c5, F, seconds, FALSE), LAMBDA c6 :
        AndThen(maskRegister(c6, F, REG_CTRL_1,
                             Not8(BitOr(REG_CTRL_1_STOP, REG_CTRL_1_RSP)),
                             REG_CTRL_1_PWR2, TRUE), LAMBDA c7 :
        AndThen(setRegisterBit(c7, F, REG_OSC_CTRL, REG_OSC_CTRL_PWGT, TRUE), LAMBDA c8 :
        AndThen(maskRegister(c8, F, REG_CTRL_2, Not8(REG_CTRL_2_OUT2S_MASK),
                             REG_CTRL_2_OUT2S_SLEEP, TRUE), LAMBDA c9 :
        writeRegister(c9, F, REG_SLEEP_CTRL, SleepRequest, TRUE))))))))))

\* deepPowerDown hands control back once the sleep request is written
ReturnsAfterRequest(ok) == "run"

\* where the host is after the arming steps: back in the caller when one
\* failed, in the polling loop when all succeeded
AfterRequest(ok) == IF ok THEN "polling" ELSE "run"

\* the loop condition millis() - start < (unsigned long) (seconds * 1000)
PollPending(now, start, seconds) ==
    (now - start + Wrap32) % Wrap32 < Units(seconds * 1000) % Wrap32

(***************************************************************************)
(* Trickle charger and battery check                                       *)
(***************************************************************************)
\* the value setTrickle writes to REG_TRICKLE
TrickleValue(diodeAndRout) ==
    IF diodeAndRout # 0 THEN BitOr(REG_TRICKLE_TCS_ENABLE, diodeAndRout) ELSE 0

\* setTrickle(diodeAndRout): the configuration key, then the register
setTrickle(c, F, diodeAndRout) ==
    LET Value(k) ==
            IF ~k.ok THEN [c |-> k.c, ok |-> FALSE]
            ELSE writeRegister(k.c, F, REG_TRICKLE, TrickleValue(diodeAndRout), TRUE)
    IN  Value(writeRegister(c, F, REG_CONFIG_KEY, REG_CONFIG_KEY_OTHER, TRUE))

\* checkVBAT(mask, isAbove); the results of the two setTrickle calls and of
\* the read of REG_ASTAT are not part of the return value
checkVBAT(c, F, mask) ==
    LET Off(c1, trickleValue) ==
            IF trickleValue # 0 THEN setTrickle(c1, F, 0).c ELSE c1
        On(c1, trickleValue) ==
            IF trickleValue # 0 THEN setTrickle(c1, F, trickleValue).c ELSE c1
        Status(a, trickleValue) ==
            [c |-> On(a.c, trickleValue), ok |-> TRUE,
             isAbove |-> a.ok /\ BitAnd(a.value, mask) # 0]
        Measure(t) ==
            IF ~t.ok THEN [c |-> t.c, ok |-> FALSE, isAbove |-> FALSE]
            ELSE Status(readRegister(Off(t.c, t.value), F, REG_ASTAT, TRUE), t.value)
    IN  Measure(readRegister(c, F, REG_TRICKLE, TRUE))

(***************************************************************************)
(* Chip detection and setup                                                *)
(***************************************************************************)
isRTCSet(c, F) == isBitClear(c, F, REG_CTRL_1, REG_CTRL_1_WRTC, TRUE)

\* detectChip() on a handle without FOUT pin (foutPin is PIN_INVALID)
\* a chip taken as detected as soon as both identity registers can be read
detectChipAnyId(c, F) ==
    LET Second(r) == [c |-> r.c, result |-> r.ok]
        First1(r) == IF r.ok THEN Second(readRegister(r.c, F, REG_ID1, TRUE))
                     ELSE [c |-> r.c, result |-> FALSE]
    IN  First1(readRegister(c, F, REG_ID0, TRUE))

detectChip(c, F) ==
    LET IsABXX05(r) == [c |-> r.c, result |-> r.ok /\ r.value = REG_ID1_ABXX05]
        IsAB18XX(r) ==
            IF r.ok /\ r.value = REG_ID0_AB18XX
            THEN IsABXX05(readRegister(r.c, F, REG_ID1, TRUE))
            ELSE [c |-> r.c, result |-> FALSE]
    IN  IsAB18XX(readRegister(c, F, REG_ID0, TRUE))

\* setup() on a handle whose wake reason is wr, Time.isValid() being tValid.
\* setTime tells what Time.setTime() was given: "none" when it was not
\* called, "rtc" for the time read from the chip, "indeterminate" for the
\* local variable that getRtcAsTime left unassigned when it failed.  The
\* handler of the reset event is registered in every case.
setup(c, F, wr, tValid) ==
    LET Finish(c1, reason, detected, setTime) ==
            [c |-> c1, wakeReason |-> reason, detected |-> detected,
             setTime |-> setTime, registered |-> TRUE]
        FromRtc(u, g) ==
            Finish(g.c, u.wakeReason, TRUE, IF g.ok THEN "rtc" ELSE "indeterminate")
        Clock(u, b) ==
            IF b.result /\ ~tValid THEN FromRtc(u, getRtcAsTm(b.c, F))
            ELSE Finish(b.c, u.wakeReason, TRUE, "none")
        Wake(u) == Clock(u, isBitClear(u.c, F, REG_CTRL_1, REG_CTRL_1_WRTC, TRUE))
        Detected(d) ==
            IF d.result THEN Wake(updateWakeReason(d.c, F, wr))
            ELSE Finish(d.c, wr, FALSE, "none")
    IN  Detected(detectChip(c, F))

(***************************************************************************)
(* Initial states                                                          *)
(***************************************************************************)
\* the register file with the documented default values
DefaultRegs ==
    [a \in 0..(NumRegs - 1) |->
        CASE a = REG_CTRL_1 -> REG_CTRL_1_DEFAULT
          [] a = REG_CTRL_2 -> REG_CTRL_2_DEFAULT
          [] a = REG_INT_MASK -> REG_INT_MASK_DEFAULT
          [] a = REG_SQW -> REG_SQW_DEFAULT
          [] a = REG_TIMER_CTRL -> REG_TIMER_CTRL_DEFAULT
          [] a = REG_BREF_CTRL -> REG_BREF_CTRL_DEFAULT
          [] a = REG_BATMODE_IO -> REG_BATMODE_IO_DEFAULT
          [] a = REG_ID0 -> REG_ID0_AB18XX
          [] a = REG_ID1 -> REG_ID1_ABXX05
          [] OTHER -> 0]

ZeroRam == [i \in 0..(RamSize - 1) |-> 0]

\* RAM contents kept by the backup supply from an earlier run
StaleRam == [i \in 0..(RamSize - 1) |-> 255 - i]

NoCall ==
    [op |-> "none", a |-> 0, n |-> 0, data |-> <<>>, ok |-> TRUE, log |-> <<>>,
     buf |-> <<>>, reason |-> "", pre |-> <<>>]

\* the handle as constructed (member initialisers of class AB1805)
InitHandle ==
    /\ watchdogSecs = 0
    /\ lastWatchdogMillis = 0
    /\ watchdogUpdatePeriod = 0
    /\ timeSet = FALSE
    /\ wakeReason = "UNKNOWN"
    /\ everSet = FALSE
    /\ autoAt = -1
    /\ pushes = 0

\* the register file of a chip whose bank-select bit was left set by the RAM
\* access of an earlier run (no other code writes REG_EXT_ADDR)
UpperBankRegs == [DefaultRegs EXCEPT ![REG_EXT_ADDR] = REG_EXT_ADDR_XADA]

\* no deepPowerDown is in progress
NoPoll == [start |-> 0, seconds |-> 0]

\* the register file of a chip an earlier run left with the watchdog armed
\* (setWDT(8)), the countdown timer running (interruptCountdownTimer(30,
\* true)) and the timer and alarm flags raised
RunningRegs ==
    [DefaultRegs EXCEPT
        ![REG_WDT] = WdtValue(FourSecs(8)),
        ![REG_TIMER] = 30,
        ![REG_TIMER_CTRL] = BitOr(REG_TIMER_CTRL_TE, REG_TIMER_CTRL_TFS_1_60),
        ![REG_INT_MASK] = BitOr(REG_INT_MASK_DEFAULT, REG_INT_MASK_TIE),
        ![REG_STATUS] = BitOr(REG_STATUS_TIM, REG_STATUS_ALM)]

\* the register file of a chip an earlier run left with an alarm armed by
\* interruptAtTm
AlarmRegs ==
    interruptAtTm([regs |-> DefaultRegs, ram |-> ZeroRam, n |-> 0, log |-> <<>>,
                   depth |-> 0], {},
                  [sec |-> 15, min |-> 45, hour |-> 12, mday |-> 24, mon |-> 5,
                   year |-> 126, wday |-> 3], 0).c.regs

\* the handle as constructed (setUp false) or with setup() already run
\* (setUp true) on a chip that has nothing to report; chips holds the
\* register files of chips that answer
InitOn(chips, clocks, rams, setUp, answering) ==
    /\ regs \in chips
    /\ ram \in rams
    /\ clock \in clocks
    /\ InitHandle
    /\ timeValid = FALSE
    /\ timeSynced = FALSE
    /\ ticks = 0
    /\ ramOps = 0
    /\ last = NoCall
    /\ before = NoCall
    /\ armOps = 0
    /\ pc = "run"
    /\ poll = NoPoll
    /\ registered = setUp
    /\ present \in answering

InitFrom(chips, clocks, rams, setUp) == InitOn(chips, clocks, rams, setUp, {TRUE})

InitWith(chips, clocks, rams) == InitFrom(chips, clocks, rams, FALSE)

\* the register file of a chip whose clock an earlier run set
ClockSetRegs ==
    setRtcFromTm([regs |-> DefaultRegs, ram |-> ZeroRam, n |-> 0, log |-> <<>>,
                  depth |-> 0], {},
                 [sec |-> 15, min |-> 45, hour |-> 12, mday |-> 24, mon |-> 5,
                  year |-> 126, wday |-> 3], TRUE).c.regs

(***************************************************************************)
(* Actions                                                                 *)
(***************************************************************************)
Ctx == [regs |-> regs, ram |-> ram, n |-> 0, log |-> <<>>, depth |-> 0]

Handle ==
    [watchdogSecs |-> watchdogSecs, lastWatchdogMillis |-> lastWatchdogMillis,
     watchdogUpdatePeriod |-> watchdogUpdatePeriod, timeSet |-> timeSet,
     wakeReason |-> wakeReason, everSet |-> everSet, autoAt |-> autoAt]

\* the state a call starts in (the RAM contents for the RAM calls only)
Pre == [regs |-> regs, clock |-> clock, h |-> Handle]
PreRam == [regs |-> regs, ram |-> ram]

Call(op, a, n, data, ok, log, buf, reason) ==
    [op |-> op, a |-> a, n |-> n, data |-> data, ok |-> ok, log |-> log,
     buf |-> buf, reason |-> reason, pre |-> Pre]

CallOnRam(op, a, n, data, ok, log, buf) ==
    [op |-> op, a |-> a, n |-> n, data |-> data, ok |-> ok, log |-> log,
     buf |-> buf, reason |-> "", pre |-> PreRam]

\* the chip raises a wake condition: the watchdog, timer or alarm flag of the
\* status register, or the sleep-occurred flag of the sleep-control register
ChipEvent ==
    \E ev \in {"wdt", "tim", "alm", "slst"} :
        /\ regs' =
             CASE ev = "wdt" ->
                    [regs EXCEPT ![REG_STATUS] = BitOr(@, REG_STATUS_WDT)]
               [] ev = "tim" ->
                    [regs EXCEPT ![REG_STATUS] = BitOr(@, REG_STATUS_TIM)]
               [] ev = "alm" ->
                    [regs EXCEPT ![REG_STATUS] = BitOr(@, REG_STATUS_ALM)]
               [] ev = "slst" ->
                    [regs EXCEPT ![REG_SLEEP_CTRL] = BitOr(@, REG_SLEEP_CTRL_SLST)]
        /\ regs' # regs
        /\ last' = Call("chipEvent", 0, 0, <<>>, TRUE, <<>>, <<>>, ev)
        /\ UNCHANGED <<ram, clock, watchdogSecs, lastWatchdogMillis,
                       watchdogUpdatePeriod, timeSet, wakeReason, timeValid,
                       timeSynced, everSet, autoAt, ticks, ramOps, before, armOps, pc, poll, registered, present, pushes>>

CallUpdateWakeReason ==
    /\ pc = "run"
    /\ \E F \in FailSets(4) :
        \E r \in {updateWakeReason(Ctx, F, wakeReason)} :
            /\ regs' = r.c.regs
            /\ wakeReason' = r.wakeReason
            /\ last' = Call("updateWakeReason", 0, 0, <<>>, r.ok, r.c.log, <<>>, r.reason)
            /\ UNCHANGED <<ram, clock, watchdogSecs, lastWatchdogMillis,
                           watchdogUpdatePeriod, timeSet, timeValid, timeSynced,
                           everSet, autoAt, ticks, ramOps, before, armOps, pc, poll, registered, present, pushes>>

\* arguments given to setWDT
WdtArgs == {-1, 0, 3, 8, 127, 200}

SetWDTWith(args) ==
    /\ pc = "run"
    /\ \E seconds \in args, F \in FailSets(1) :
        \E r \in {setWDT(Ctx, F, seconds, watchdogSecs)} :
            /\ regs' = r.c.regs
            /\ watchdogSecs' = r.watchdogSecs
            /\ watchdogUpdatePeriod' = r.watchdogUpdatePeriod
            /\ everSet' = (everSet \/ seconds > 0)
            /\ last' = Call("setWDT", seconds, 0, <<>>, r.ok, r.c.log, <<>>, "")
            /\ UNCHANGED <<ram, clock, lastWatchdogMillis, timeSet, wakeReason,
                           timeValid, timeSynced, autoAt, ticks, ramOps, before, armOps, pc, poll, registered, present, pushes>>

CallSetWDT == SetWDTWith(WdtArgs)

\* setWDT as one call of a sequence of watchdog calls: the call made before
\* it is kept
CallSetWDTInTurn ==
    /\ pc = "run"
    /\ \E seconds \in WdtArgs, F \in FailSets(1) :
        \E r \in {setWDT(Ctx, F, seconds, watchdogSecs)} :
            /\ regs' = r.c.regs
            /\ watchdogSecs' = r.watchdogSecs
            /\ watchdogUpdatePeriod' = r.watchdogUpdatePeriod
            /\ everSet' = (everSet \/ seconds > 0)
            /\ last' = Call("setWDT", seconds, 0, <<>>, r.ok, r.c.log, <<>>, "")
            /\ before' = last
            /\ UNCHANGED <<ram, clock, lastWatchdogMillis, timeSet, wakeReason,
                           timeValid, timeSynced, autoAt, ticks, ramOps, armOps, pc, poll, registered, present, pushes>>

\* the watchdog settings an application switches between while it runs:
\* off, the shortest period and the longest
TickWdtArgs == {0, 3, 127}

StartStopWDT == SetWDTWith(TickWdtArgs)

\* values of gmtime(Time.now())
HostTimes ==
    {[sec |-> 59, min |-> 7, hour |-> 23, mday |-> 31, mon |-> 11, year |-> 126, wday |-> 4]}

\* the most transactions one loop() issues: five to set the RTC, two to read
\* it back, one to refresh the watchdog
LoopTransactions == IF PushDue(timeSet, timeValid, timeSynced) THEN 8 ELSE 1

CallLoop ==
    /\ pc = "run"
    /\ \E F \in FailSets(LoopTransactions), t \in HostTimes :
        \E r \in {loop(Ctx, F, clock, t, Handle, timeValid, timeSynced)} :
            /\ regs' = r.c.regs
            /\ timeSet' = r.timeSet
            /\ lastWatchdogMillis' = r.lastWatchdogMillis
            /\ watchdogSecs' = r.watchdogSecs
            /\ watchdogUpdatePeriod' = r.watchdogUpdatePeriod
            /\ autoAt' = IF r.refreshed THEN clock ELSE autoAt
            /\ pushes' = IF r.pushed THEN pushes + 1 ELSE pushes
            /\ last' = Call("loop", 0, 0, <<>>, TRUE, r.c.log, <<>>, "")
            /\ UNCHANGED <<ram, clock, wakeReason, timeValid, timeSynced, everSet,
                           ticks, ramOps, before, armOps, pc, poll, registered, present>>

\* the time in ms between two calls of loop() made by the host's main loop
ServiceSteps == {1000, 61000}

\* the host calls loop() d ms after its last call of loop() or setWDT(), the
\* bus working; while the watchdog is armed d is shorter than the refresh
\* cadence, which is half the period the chip runs.  before keeps the setWDT
\* call the loop() calls follow.
ServiceTick ==
    /\ pc = "run"
    /\ ticks < MaxServiceTicks
    /\ \E d \in ServiceSteps, t \in HostTimes :
        /\ watchdogUpdatePeriod # 0 => d < watchdogUpdatePeriod
        /\ \E r \in {loop(Ctx, {}, clock + Units(d), t, Handle, timeValid, timeSynced)} :
            /\ clock' = clock + Units(d)
            /\ ticks' = ticks + 1
            /\ regs' = r.c.regs
            /\ timeSet' = r.timeSet
            /\ lastWatchdogMillis' = r.lastWatchdogMillis
            /\ watchdogSecs' = r.watchdogSecs
            /\ watchdogUpdatePeriod' = r.watchdogUpdatePeriod
            /\ autoAt' = IF r.refreshed THEN clock + Units(d) ELSE autoAt
            /\ pushes' = IF r.pushed THEN pushes + 1 ELSE pushes
            /\ before' = IF last.op = "setWDT" THEN last ELSE before
            /\ last' = Call("loop", d, 0, <<>>, TRUE, r.c.log, <<>>, "")
            /\ UNCHANGED <<ram, wakeReason, timeValid, timeSynced, everSet, ramOps,
                           armOps, pc, poll, registered, present>>

\* time passes between calls (ms)
TimeSteps == {2000, 62000}

AdvanceTime ==
    \E d \in TimeSteps :
        /\ ticks < MaxAdvances
        /\ ticks' = ticks + 1
        /\ clock' = clock + Units(d)
        /\ last' = Call("advance", d, 0, <<>>, TRUE, <<>>, <<>>, "")
        /\ UNCHANGED <<regs, ram, watchdogSecs, lastWatchdogMillis,
                       watchdogUpdatePeriod, timeSet, wakeReason, timeValid,
                       timeSynced, everSet, autoAt, ramOps, before, armOps, pc, poll, registered, present, pushes>>

\* the host obtains the time from the cloud
CloudSync ==
    /\ pc = "run"
    /\ ~(timeValid /\ timeSynced)
    /\ timeValid' = TRUE
    /\ timeSynced' = TRUE
    /\ last' = Call("cloudSync", 0, 0, <<>>, TRUE, <<>>, <<>>, "")
    /\ UNCHANGED <<regs, ram, clock, watchdogSecs, lastWatchdogMillis,
                   watchdogUpdatePeriod, timeSet, wakeReason, everSet, autoAt,
                   ticks, ramOps, before, armOps, pc, poll, registered, present, pushes>>

\* the reset system event is delivered to the handler registered by setup()
CallSystemEvent ==
    /\ pc = "run"
    /\ registered
    /\ \E F \in FailSets(1) :
        \E r \in {systemEvent(Ctx, F, watchdogSecs, watchdogUpdatePeriod)} :
            /\ regs' = r.c.regs
            /\ watchdogSecs' = r.watchdogSecs
            /\ watchdogUpdatePeriod' = r.watchdogUpdatePeriod
            /\ last' = Call("systemEvent", 0, 0, <<>>, r.ok, r.c.log, <<>>, "")
            /\ UNCHANGED <<ram, clock, lastWatchdogMillis, timeSet, wakeReason,
                           timeValid, timeSynced, everSet, autoAt, ticks, ramOps,
                           before, armOps, pc, poll, registered, present, pushes>>

\* setup(), called once by the application after the handle is constructed;
\* Time.isValid() is true once Time.setTime() was called
CallSetup ==
    /\ pc = "run"
    /\ ~registered
    /\ \E F \in FailSets(9) :
        \E r \in {setup(Ctx, F, wakeReason, timeValid)} :
            /\ regs' = r.c.regs
            /\ wakeReason' = r.wakeReason
            /\ timeValid' = (timeValid \/ r.setTime # "none")
            /\ registered' = r.registered
            /\ last' = Call("setup", 0, 0, [detected |-> r.detected, setTime |-> r.setTime],
                            TRUE, r.c.log, <<>>, "")
            /\ UNCHANGED <<ram, clock, watchdogSecs, lastWatchdogMillis,
                           watchdogUpdatePeriod, timeSet, timeSynced, everSet, autoAt,
                           ticks, ramOps, before, armOps, pc, poll, present, pushes>>

\* the operations of the register access layer, called with the lock taken
RegisterOps ==
    {"readRegister", "readRegisters", "writeRegister", "writeRegisters", "maskRegister",
     "isBitSet", "isBitClear", "setRegisterBit", "clearRegisterBit"}

\* the bus context and the bool a register operation returns
RegisterOp(c, F, op, regAddr, value) ==
    LET Read(r) == [c |-> r.c, ok |-> r.ok]
        Test(r) == [c |-> r.c, ok |-> r.result]
    IN  CASE op = "readRegister" -> Read(readRegister(c, F, regAddr, TRUE))
          [] op = "readRegisters" -> Read(readRegisters(c, F, regAddr, 2, TRUE))
          [] op = "writeRegister" -> writeRegister(c, F, regAddr, value, TRUE)
          [] op = "writeRegisters" -> writeRegisters(c, F, regAddr, <<value, value>>, TRUE)
          [] op = "maskRegister" -> maskRegister(c, F, regAddr, value, 0, TRUE)
          [] op = "isBitSet" -> Test(isBitSet(c, F, regAddr, value, TRUE))
          [] op = "isBitClear" -> Test(isBitClear(c, F, regAddr, value, TRUE))
          [] op = "setRegisterBit" -> setRegisterBit(c, F, regAddr, value, TRUE)
          [] op = "clearRegisterBit" -> clearRegisterBit(c, F, regAddr, value, TRUE)

\* the registers and the values the register operations are called with
OpRegs == {REG_STATUS, REG_TIMER}
OpValues == {REG_STATUS_WDT, 255}

\* a register operation called once setup() has returned
CallRegisterOp ==
    /\ pc = "run"
    /\ registered
    /\ armOps < MaxArmOps
    /\ \E op \in RegisterOps, regAddr \in OpRegs, value \in OpValues, F \in FailSets(2) :
        \E r \in {RegisterOp(Ctx, F, op, regAddr, value)} :
            /\ regs' = r.c.regs
            /\ armOps' = armOps + 1
            /\ last' = Call(op, regAddr, 0, <<value>>, r.ok, r.c.log, <<>>, "")
            /\ UNCHANGED <<ram, clock, watchdogSecs, lastWatchdogMillis,
                           watchdogUpdatePeriod, timeSet, wakeReason, timeValid,
                           timeSynced, everSet, autoAt, ticks, ramOps, before, pc, poll,
                           registered, present, pushes>>

\* detectChip() on a handle configured withFOUT(): "unsigned long start = 0"
FoutStart(now) == 0

\* the loop condition millis() - start < 1000
FoutWaitPending(now, start) == (now - start + Wrap32) % Wrap32 < Units(1000)

\* the time one turn of the wait loop takes, in ms
FoutSteps == {200, 400}

\* detectChip() is entered on a handle whose FOUT pin is configured
CallDetectChipOnFOUT ==
    /\ pc = "run"
    /\ last = NoCall
    /\ pc' = "fout"
    /\ poll' = [start |-> FoutStart(Millis(clock)), seconds |-> 0]
    /\ last' = Call("waitFOUT", 0, 0, <<>>, TRUE, <<>>, <<>>, "")
    /\ UNCHANGED <<regs, ram, clock, watchdogSecs, lastWatchdogMillis,
                   watchdogUpdatePeriod, timeSet, wakeReason, timeValid, timeSynced,
                   everSet, autoAt, ticks, ramOps, before, armOps, registered,
                   present, pushes>>

\* one turn of the wait loop of detectChip: while the loop condition holds the
\* pin is read; when it reads HIGH, or when the condition fails, the loop is
\* left and the identity registers are read.  n counts the reads of the pin,
\* data tells whether the pin was read HIGH and how long the call waited.
PollFOUT ==
    /\ pc = "fout"
    /\ \E high \in BOOLEAN :
        LET pending == FoutWaitPending(Millis(clock), poll.start)
        IN  IF pending /\ ~high
            THEN \E d \in FoutSteps :
                    /\ clock' = clock + Units(d)
                    /\ last' = [last EXCEPT !.n = @ + 1]
                    /\ UNCHANGED <<regs, pc, poll>>
            ELSE \E F \in FailSets(2) :
                    \E r \in {detectChip(Ctx, F)} :
                        /\ regs' = r.c.regs
                        /\ pc' = "run"
                        /\ poll' = NoPoll
                        /\ last' = [op |-> "detectChip", a |-> 0,
                                    n |-> last.n + (IF pending THEN 1 ELSE 0),
                                    data |-> [ready |-> pending /\ high,
                                              waited |-> clock - last.pre.clock],
                                    ok |-> r.result, log |-> r.c.log, buf |-> <<>>,
                                    reason |-> "", pre |-> last.pre]
                        /\ UNCHANGED clock
    /\ UNCHANGED <<ram, watchdogSecs, lastWatchdogMillis, watchdogUpdatePeriod,
                   timeSet, wakeReason, timeValid, timeSynced, everSet, autoAt,
                   ticks, ramOps, before, armOps, registered, present, pushes>>

\* the host restarts without the reset event reaching the driver (watchdog
\* reset, host power cycle, or the restart System.reset() ends in after the
\* event found watchdogSecs = 0): the handle is constructed again, the chip
\* keeps its registers
HostReboot ==
    /\ last.op # "hostReboot"
    /\ watchdogSecs' = 0
    /\ lastWatchdogMillis' = 0
    /\ watchdogUpdatePeriod' = 0
    /\ timeSet' = FALSE
    /\ wakeReason' = "UNKNOWN"
    /\ everSet' = FALSE
    /\ autoAt' = -1
    /\ clock' = 0
    /\ timeValid' = FALSE
    /\ timeSynced' = FALSE
    /\ pc' = "run"
    /\ poll' = NoPoll
    /\ last' = Call("hostReboot", 0, 0, <<>>, TRUE, <<>>, <<>>, "")
    /\ registered' = FALSE
    /\ pushes' = 0
    /\ UNCHANGED <<regs, ram, ticks, ramOps, before, armOps, present>>

\* the result of a call that does not touch the watchdog fields of the handle
Kept(w) ==
    [c |-> w.c, ok |-> w.ok, watchdogSecs |-> watchdogSecs,
     watchdogUpdatePeriod |-> watchdogUpdatePeriod]

\* a configuration or arming call with result r, recorded as rec
ArmCall(r, rec) ==
    /\ armOps' = armOps + 1
    /\ regs' = r.c.regs
    /\ watchdogSecs' = r.watchdogSecs
    /\ watchdogUpdatePeriod' = r.watchdogUpdatePeriod
    /\ last' = rec
    /\ UNCHANGED <<ram, clock, lastWatchdogMillis, timeSet, wakeReason, timeValid,
                   timeSynced, everSet, autoAt, ticks, ramOps, before, pc, poll, registered, present, pushes>>

\* arguments given as the countdown value
TimerValues == {-7, 0, 30, 255, 256, 9000}

Unit(minutes) == IF minutes THEN "minutes" ELSE "seconds"

CallSetCountdownTimer ==
    /\ pc = "run"
    /\ armOps < MaxArmOps
    /\ \E value \in TimerValues, minutes \in BOOLEAN, F \in FailSets(6) :
        \E r \in {setCountdownTimer(Ctx, F, value, minutes)} :
            ArmCall(Kept(r), Call("setCountdownTimer", value, 0, <<>>, r.ok, r.c.log,
                                  <<>>, Unit(minutes)))

InterruptCountdownTimerWith(values) ==
    /\ pc = "run"
    /\ armOps < MaxArmOps
    /\ \E value \in values, minutes \in BOOLEAN, F \in FailSets(9) :
        \E r \in {interruptCountdownTimer(Ctx, F, value, minutes, watchdogSecs)} :
            ArmCall(r, Call("interruptCountdownTimer", value, 0, <<>>, r.ok, r.c.log,
                            <<>>, Unit(minutes)))

CallInterruptCountdownTimer == InterruptCountdownTimerWith(TimerValues)

\* the countdown armed with the value the examples use
WakeIn30 == InterruptCountdownTimerWith({30})

\* alarm times given as struct tm
AlarmTimes ==
    {[sec |-> 59, min |-> 7, hour |-> 23, mday |-> 31, mon |-> 11, year |-> 126, wday |-> 4]}

\* match selectors given as rptValue
RptValues == {REG_TIMER_CTRL_RPT_SEC, REG_TIMER_CTRL_RPT_HUN}

CallRepeatingInterrupt ==
    /\ pc = "run"
    /\ armOps < MaxArmOps
    /\ \E t \in AlarmTimes, rptValue \in RptValues, F \in FailSets(12) :
        \E r \in {repeatingInterrupt(Ctx, F, t, rptValue, watchdogSecs)} :
            ArmCall(r, Call("repeatingInterrupt", rptValue, 0, t, r.ok, r.c.log,
                            <<>>, ""))

\* interruptAtTm(t), also reached as interruptAtTime(time) with t = gmtime(time)
CallInterruptAtTm ==
    /\ pc = "run"
    /\ armOps < MaxArmOps
    /\ \E t \in AlarmTimes, F \in FailSets(12) :
        \E r \in {interruptAtTm(Ctx, F, t, watchdogSecs)} :
            ArmCall(r, Call("interruptAtTm", REG_TIMER_CTRL_RPT_DATE, 0, t, r.ok,
                            r.c.log, <<>>, ""))

CallClearRepeatingInterrupt ==
    /\ pc = "run"
    /\ armOps < MaxArmOps
    /\ \E F \in FailSets(6) :
        \E r \in {clearRepeatingInterrupt(Ctx, F)} :
            ArmCall(Kept(r), Call("clearRepeatingInterrupt", 0, 0, <<>>, r.ok,
                                  r.c.log, <<>>, ""))

\* flags given to resetConfig
ResetFlags ==
    {0, RESET_PRESERVE_REPEATING_TIMER, RESET_DISABLE_XT,
     RESET_PRESERVE_REPEATING_TIMER + RESET_DISABLE_XT}

CallResetConfig ==
    /\ pc = "run"
    /\ armOps < MaxArmOps
    /\ \E flags \in ResetFlags, F \in FailSets(17) :
        \E r \in {resetConfig(Ctx, F, flags)} :
            ArmCall(Kept(r), Call("resetConfig", flags, 0, <<>>, r.ok, r.c.log,
                                  <<>>, ""))

\* arguments given as the power-down time
DownSeconds == {0, 1, 3}

\* deepPowerDown(seconds) up to the point where it returns false or enters
\* its polling loop
CallDeepPowerDown ==
    /\ pc = "run"
    /\ armOps < MaxArmOps
    /\ \E seconds \in DownSeconds, F \in FailSets(21) :
        \E r \in {deepPowerDown(Ctx, F, seconds, watchdogSecs)} :
            /\ armOps' = armOps + 1
            /\ regs' = r.c.regs
            /\ watchdogSecs' = r.watchdogSecs
            /\ watchdogUpdatePeriod' = r.watchdogUpdatePeriod
            /\ pc' = AfterRequest(r.ok)
            /\ poll' = IF r.ok THEN [start |-> Millis(clock), seconds |-> seconds]
                       ELSE NoPoll
            /\ last' = Call("deepPowerDown", seconds, 0, <<>>, r.ok, r.c.log, <<>>, "")
            /\ UNCHANGED <<ram, clock, lastWatchdogMillis, timeSet, wakeReason,
                           timeValid, timeSynced, everSet, autoAt, ticks, ramOps,
                           before, registered, present, pushes>>

\* one turn of deepPowerDown's loop: while the time is not up the sleep
\* control register is read (the result is only logged) and a second passes;
\* when it is up the loop ends in System.reset()
PollSleepControl ==
    /\ pc = "polling"
    /\ IF PollPending(Millis(clock), poll.start, poll.seconds)
       THEN \E F \in FailSets(1) :
               \E r \in {readRegister(Ctx, F, REG_SLEEP_CTRL, TRUE)} :
                   /\ clock' = clock + Units(1000)
                   /\ last' = Call("poll", 0, 0, <<>>, r.ok, r.c.log, <<>>, "")
                   /\ UNCHANGED <<pc, poll>>
       ELSE /\ pc' = "reset"
            /\ poll' = NoPoll
            /\ last' = Call("System.reset", 0, 0, <<>>, TRUE, <<>>, <<>>, "")
            /\ UNCHANGED clock
    /\ UNCHANGED <<regs, ram, watchdogSecs, lastWatchdogMillis, watchdogUpdatePeriod,
                   timeSet, wakeReason, timeValid, timeSynced, everSet, autoAt,
                   ticks, ramOps, before, armOps, registered, present, pushes>>

\* setTrickle(0) and setTrickle(REG_TRICKLE_DIODE_0_3 | REG_TRICKLE_ROUT_3K)
CallSetTrickle ==
    /\ pc = "run"
    /\ armOps < MaxArmOps
    /\ \E diodeAndRout \in {0, BitOr(REG_TRICKLE_DIODE_0_3, REG_TRICKLE_ROUT_3K)}, F \in FailSets(2) :
        \E r \in {setTrickle(Ctx, F, diodeAndRout)} :
            ArmCall(Kept(r), Call("setTrickle", diodeAndRout, 0, <<>>, r.ok, r.c.log,
                                  <<>>, ""))

\* isVBATAboveBREF() and isVBATAboveMin()
CallCheckVBAT ==
    /\ pc = "run"
    /\ armOps < MaxArmOps
    /\ \E mask \in {REG_ASTAT_BBOD, REG_ASTAT_BMIN}, F \in FailSets(6) :
        \E r \in {checkVBAT(Ctx, F, mask)} :
            ArmCall(Kept(r), Call("checkVBAT", mask, 0, r.isAbove, r.ok, r.c.log,
                                  <<>>, ""))

LockPart(lock) == IF lock THEN "lock" ELSE "no lock"

\* registers, and-masks and or-masks given to maskRegister
MaskRegs == {REG_CTRL_1, REG_INT_MASK, REG_TIMER_CTRL}
AndValues == {0, 15, Not8(REG_TIMER_CTRL_RPT_MASK), 255}
OrValues == {0, REG_INT_MASK_TIE, REG_TIMER_CTRL_DEFAULT}

CallMaskRegister ==
    /\ pc = "run"
    /\ armOps < MaxArmOps
    /\ \E regAddr \in MaskRegs, andValue \in AndValues, orValue \in OrValues,
          lock \in BOOLEAN, F \in FailSets(2) :
        \E r \in {maskRegister(Ctx, F, regAddr, andValue, orValue, lock)} :
            ArmCall(Kept(r), Call("maskRegister", regAddr, 0, <<andValue, orValue>>,
                                  r.ok, r.c.log, <<>>, LockPart(lock)))

\* times given to setRtcFromTm
RtcTimes ==
    HostTimes \cup
    {[sec |-> 0, min |-> 30, hour |-> 6, mday |-> 1, mon |-> 0, year |-> 127, wday |-> 5],
     [sec |-> 9, min |-> 10, hour |-> 0, mday |-> 29, mon |-> 1, year |-> 128, wday |-> 2]}

CallSetRtcFromTm ==
    /\ pc = "run"
    /\ armOps < MaxArmOps
    /\ \E t \in RtcTimes, lock \in BOOLEAN, F \in FailSets(5) :
        \E r \in {setRtcFromTm(Ctx, F, t, lock)} :
            ArmCall(Kept(r), Call("setRtcFromTm", 0, 0, t, r.ok, r.c.log, <<>>,
                                  LockPart(lock)))

\* a call that reads the chip and leaves the handle alone; value is what it
\* hands back
ReadCall(op, r, value) ==
    /\ regs' = r.c.regs
    /\ last' = Call(op, 0, 0, value, r.ok, r.c.log, <<>>, "")
    /\ UNCHANGED <<ram, clock, watchdogSecs, lastWatchdogMillis, watchdogUpdatePeriod,
                   timeSet, wakeReason, timeValid, timeSynced, everSet, autoAt, ticks,
                   ramOps, before, armOps, pc, poll, registered, present, pushes>>

CallGetRtcAsTm ==
    /\ pc = "run"
    /\ \E F \in FailSets(2) :
        \E r \in {getRtcAsTm(Ctx, F)} : ReadCall("getRtcAsTm", r, r.tm)

CallIsRTCSet ==
    /\ pc = "run"
    /\ \E F \in FailSets(1) :
        \E r \in {isRTCSet(Ctx, F)} :
            ReadCall("isRTCSet", [c |-> r.c, ok |-> r.result], <<>>)

\* a call of a static conversion function: it touches neither chip nor handle
PureCall(rec, prev) ==
    /\ last' = rec
    /\ before' = prev
    /\ UNCHANGED <<regs, ram, clock, watchdogSecs, lastWatchdogMillis,
                   watchdogUpdatePeriod, timeSet, wakeReason, timeValid, timeSynced,
                   everSet, autoAt, ticks, ramOps, armOps, pc, poll, registered,
                   present, pushes>>

\* the conversions keep no state: a behaviour converts one value and converts
\* the result back
CallValueToBcd ==
    /\ last = NoCall
    /\ \E value \in 0..MaxBcdInput :
        PureCall(Call("valueToBcd", value, valueToBcd(value), <<>>, TRUE, <<>>, <<>>, ""),
                 before)

\* bcdToValue given the byte the valueToBcd before it returned
CallBcdToValue ==
    /\ last.op = "valueToBcd"
    /\ PureCall(Call("bcdToValue", last.n, bcdToValue(last.n), <<>>, TRUE, <<>>, <<>>, ""),
                last)

\* struct tm values given to the conversions: the ends of the documented
\* range of each field, and years of the 1900s, 2000s and 2100s
CalendarYears == {99, 100, 126, 199, 200}
CalendarTimes ==
    [sec : {0, 59}, min : {0, 59}, hour : {0, 23}, mday : {1, 31}, mon : {0, 11},
     year : CalendarYears, wday : {0, 6}]

\* the value of tm_year in the struct tm handed to registersToTm
StaleYear == 70

YearPart(includeYear) == IF includeYear THEN "year" ELSE "no year"

CallTmToRegisters ==
    /\ last = NoCall
    /\ \E t \in CalendarTimes, includeYear \in BOOLEAN :
        PureCall(Call("tmToRegisters", 0, 0, t, TRUE, <<>>,
                      tmToRegisters(t, includeYear), YearPart(includeYear)),
                 before)

\* registersToTm given the array the tmToRegisters before it filled
CallRegistersToTm ==
    /\ last.op = "tmToRegisters"
    /\ PureCall(Call("registersToTm", 0, 0,
                     registersToTm(last.buf, last.reason = "year", StaleYear),
                     TRUE, <<>>, last.buf, last.reason),
                last)

\* the bytes of data pattern p, all non-zero
Pattern(p, n) == [i \in 1..n |-> ((p * 53 + i * 7) % 255) + 1]

\* (address, length) pairs of the RAM calls
RamRanges == {<<0, 256>>, <<125, 4>>, <<0, 16>>, <<120, 40>>, <<128, 31>>, <<200, 56>>}

RamCall(c) ==
    /\ ramOps' = ramOps + 1
    /\ regs' = c.regs
    /\ ram' = c.ram
    /\ before' = last
    /\ UNCHANGED <<clock, watchdogSecs, lastWatchdogMillis, watchdogUpdatePeriod,
                   timeSet, wakeReason, timeValid, timeSynced, everSet, autoAt, ticks, armOps, pc, poll, registered, present, pushes>>

CallWriteRam ==
    /\ pc = "run"
    /\ ramOps < MaxRamOps
    /\ \E rg \in RamRanges, p \in 1..NumPatterns, F \in FailSets(MaxFailAt) :
        \E r \in {writeRam(Ctx, F, rg[1], Pattern(p, rg[2]), TRUE)} :
            /\ RamCall(r.c)
            /\ last' = CallOnRam("writeRam", rg[1], rg[2], Pattern(p, rg[2]), r.ok,
                                 r.c.log, <<>>)

CallReadRam ==
    /\ pc = "run"
    /\ ramOps < MaxRamOps
    /\ \E rg \in RamRanges, F \in FailSets(MaxFailAt) :
        \E r \in {readRam(Ctx, F, rg[1], rg[2], TRUE)} :
            /\ RamCall(r.c)
            /\ last' = CallOnRam("readRam", rg[1], rg[2], <<>>, r.ok, r.c.log, r.data)

CallEraseRam ==
    /\ pc = "run"
    /\ ramOps < MaxRamOps
    /\ \E F \in FailSets(MaxFailAt) :
        \E r \in {eraseRam(Ctx, F, TRUE)} :
            /\ RamCall(r.c)
            /\ last' = CallOnRam("eraseRam", 0, RamSize, <<>>, r.ok, r.c.log, <<>>)

(***************************************************************************)
(* Specifications                                                          *)
(***************************************************************************)
\* wake-reason resolution against a chip that raises wake conditions
InitWake == InitWith({DefaultRegs}, {0}, {ZeroRam})
NextWake == ChipEvent \/ CallUpdateWakeReason
SpecWake == InitWake /\ [][NextWake]_vars

\* the watchdog controller and the periodic tick; the uptime starts at boot or
\* shortly before millis() wraps
StartClocks == {0, Wrap32 - Units(2000)}
InitWdt == InitFrom({DefaultRegs}, StartClocks, {ZeroRam}, TRUE)
NextWdt == CallSetWDT \/ CallLoop \/ CallSystemEvent \/ HostReboot \/ CallSetup
SpecWdt == InitWdt /\ [][NextWdt]_vars

\* sequences of watchdog calls: set, stop, resume
NextResume == CallSetWDTInTurn
SpecResume == InitWake /\ [][NextResume]_vars

\* the periodic tick while time passes and the host obtains the cloud time
NextTick == StartStopWDT \/ CallLoop \/ AdvanceTime \/ CloudSync
SpecTick == InitWdt /\ [][NextTick]_vars

\* the RAM store
InitRam == InitWith({DefaultRegs, UpperBankRegs}, {0}, {ZeroRam, StaleRam})
NextRam == CallWriteRam \/ CallReadRam \/ CallEraseRam
SpecRam == InitRam /\ [][NextRam]_vars

\* the countdown timer armed on a chip as reset and on one left by an earlier
\* run with the watchdog and the timer running and status flags raised
InitTimer == InitWith({DefaultRegs, RunningRegs}, {0}, {ZeroRam})
NextTimer == CallSetCountdownTimer \/ CallInterruptCountdownTimer
SpecTimer == InitTimer /\ [][NextTimer]_vars

\* alarm and countdown timer armed on a chip as reset, on one with the
\* countdown timer armed and on one with an alarm armed
InitArmed == InitWith({DefaultRegs, RunningRegs, AlarmRegs}, {0}, {ZeroRam})
NextAlarm == WakeIn30 \/ CallRepeatingInterrupt \/ CallInterruptAtTm
             \/ CallClearRepeatingInterrupt
SpecAlarm == InitArmed /\ [][NextAlarm]_vars

\* the configuration reset of such a chip
NextReset == CallRepeatingInterrupt \/ CallResetConfig
SpecReset == InitArmed /\ [][NextReset]_vars

\* deep power down; the host restarts when the chip cuts its power and after
\* System.reset()
InitDeep == InitWith({DefaultRegs, RunningRegs}, StartClocks, {ZeroRam})
NextDeep == CallDeepPowerDown \/ PollSleepControl \/ HostReboot
SpecDeep == InitDeep /\ [][NextDeep]_vars

\* the host keeps running its loop while it has power
SpecDeepLive == SpecDeep /\ WF_vars(PollSleepControl)

\* read-modify-write of configuration registers
NextMask == CallMaskRegister
SpecMask == InitTimer /\ [][NextMask]_vars

\* setup() and the calls after it, on the chip of this driver, on chips of the
\* family that identify as another part (AB0805, AB1815) and hold a set clock
\* and a watchdog flag, and on a bus where nothing answers
Ab0805Regs ==
    [ClockSetRegs EXCEPT ![REG_ID0] = 8, ![REG_STATUS] = REG_STATUS_WDT]
Ab1815Regs ==
    [ClockSetRegs EXCEPT ![REG_ID1] = 21, ![REG_STATUS] = REG_STATUS_WDT]
WokenRegs ==
    [ClockSetRegs EXCEPT ![REG_STATUS] = REG_STATUS_WDT]
InitSetup ==
    InitOn({DefaultRegs, WokenRegs, Ab0805Regs, Ab1815Regs}, {0}, {ZeroRam}, FALSE, BOOLEAN)
NextSetup == \/ CallSetup
             \/ CallRegisterOp
             \/ registered /\ CallUpdateWakeReason
SpecSetup == InitSetup /\ [][NextSetup]_vars

\* detectChip() with the FOUT pin configured, called at boot, shortly after
\* it, later, and shortly before and after millis() wraps
InitDetect ==
    InitOn({DefaultRegs, Ab0805Regs},
           {0, Units(400), Units(5000), Wrap32 - Units(2000), Wrap32 + Units(400)},
           {ZeroRam}, FALSE, BOOLEAN)
NextDetect == CallDetectChipOnFOUT \/ PollFOUT
SpecDetect == InitDetect /\ [][NextDetect]_vars

\* the battery check on chips whose trickle-charger register holds 0, a
\* value setTrickle wrote, and values with the diode and resistor fields set
\* while the enable field is not 1010; the battery is above both thresholds,
\* above the minimum only, or below both
InitVbat ==
    InitWith({[DefaultRegs EXCEPT ![REG_TRICKLE] = t, ![REG_ASTAT] = a] :
                 t \in {0, 165, 5, 21},
                 a \in {BitOr(REG_ASTAT_BBOD, REG_ASTAT_BMIN), REG_ASTAT_BMIN, 0}},
             {0}, {ZeroRam})
NextVbat == CallSetTrickle \/ CallCheckVBAT
SpecVbat == InitVbat /\ [][NextVbat]_vars

\* every public operation, called once on a handle as constructed or on one
\* with setup() already run
InitPublic ==
    \/ InitFrom({DefaultRegs, RunningRegs, UpperBankRegs}, {0}, {ZeroRam}, FALSE)
    \/ InitFrom({DefaultRegs, RunningRegs, UpperBankRegs}, {0}, {ZeroRam}, TRUE)
NextPublic ==
    last = NoCall
    /\ (\/ CallSetup
        \/ CallUpdateWakeReason \/ CallSetWDT \/ CallLoop \/ CallSystemEvent
        \/ CallSetCountdownTimer \/ CallInterruptCountdownTimer
        \/ CallRepeatingInterrupt \/ CallInterruptAtTm \/ CallClearRepeatingInterrupt
        \/ CallResetConfig \/ CallDeepPowerDown
        \/ CallRegisterOp \/ CallMaskRegister
        \/ CallSetRtcFromTm \/ CallGetRtcAsTm \/ CallIsRTCSet
        \/ CallSetTrickle \/ CallCheckVBAT
        \/ CallWriteRam \/ CallReadRam \/ CallEraseRam)
SpecPublic == InitPublic /\ [][NextPublic]_vars

\* the watchdog serviced by a main loop that calls loop() on schedule and
\* setWDT() between two calls of loop(); the uptime starts at boot or 61 s
\* before millis() wraps
InitService == InitFrom({DefaultRegs}, {0, Wrap32 - Units(61000)}, {ZeroRam}, TRUE)
NextService == (last.op # "setWDT" /\ StartStopWDT) \/ ServiceTick
SpecService == InitService /\ [][NextService]_vars

\* the watchdog set or stopped, then the configuration reset or the countdown
\* timer armed, and loop() called on schedule
NextView == \/ last = NoCall /\ StartStopWDT
            \/ last.op = "setWDT" /\ CallResetConfig
            \/ last.op = "setWDT" /\ WakeIn30
            \/ ServiceTick
SpecView == InitWdt /\ [][NextView]_vars

\* the composite operations that take the bus lock around their steps:
\* one call on each chip and RAM content
NextLock == last = NoCall /\ (\/ CallMaskRegister \/ CallSetRtcFromTm \/ CallResetConfig
                              \/ CallWriteRam \/ CallReadRam \/ CallEraseRam)
SpecLock == InitRam /\ [][NextLock]_vars

\* every operation that arms a wake event or the power-down
NextArming == NextTimer \/ NextAlarm \/ CallDeepPowerDown
SpecArming == InitArmed /\ [][NextArming]_vars

\* the real-time clock set and read, on chips as powered up or left running
\* (clock not set) and on one whose clock was set
InitRtc == InitWith({DefaultRegs, RunningRegs, ClockSetRegs}, {0}, {ZeroRam})
NextRtc == CallSetRtcFromTm \/ CallGetRtcAsTm \/ CallIsRTCSet
SpecRtc == InitRtc /\ [][NextRtc]_vars

\* the time codec on its own
NextCodec == CallValueToBcd \/ CallBcdToValue \/ CallTmToRegisters \/ CallRegistersToTm
SpecCodec == InitWake /\ [][NextCodec]_vars

Init == InitWith({DefaultRegs, UpperBankRegs, RunningRegs, AlarmRegs}, StartClocks, {ZeroRam, StaleRam})
Next == NextWake \/ NextWdt \/ NextResume \/ NextTick \/ NextRam \/ NextTimer
        \/ NextAlarm \/ NextReset \/ NextDeep \/ NextMask \/ NextCodec \/ NextRtc
        \/ NextArming \/ NextLock \/ NextSetup \/ NextDetect \/ NextVbat \/ NextPublic \/ NextService \/ NextView
Spec == Init /\ [][Next]_vars

(***************************************************************************)
(* Wake-reason resolution: properties                                      *)
(***************************************************************************)
\* the wake conditions a register file holds
WatchdogPresent(r) == BitAnd(r[REG_STATUS], REG_STATUS_WDT) # 0
SleepPresent(r) == BitAnd(r[REG_SLEEP_CTRL], REG_SLEEP_CTRL_SLST) # 0
TimerPresent(r) == BitAnd(r[REG_STATUS], REG_STATUS_TIM) # 0
AlarmPresent(r) == BitAnd(r[REG_STATUS], REG_STATUS_ALM) # 0

\* the highest-priority condition present, Watchdog > DeepPowerDown >
\* CountdownTimer > Alarm, or UNKNOWN when there is none
HighestPresent(r) ==
    IF WatchdogPresent(r) THEN "WATCHDOG"
    ELSE IF SleepPresent(r) THEN "DEEP_POWER_DOWN"
    ELSE IF TimerPresent(r) THEN "COUNTDOWN_TIMER"
    ELSE IF AlarmPresent(r) THEN "ALARM"
    ELSE "UNKNOWN"

\* the status bit that stands for a reason
StatusBitOf(reason) ==
    CASE reason = "WATCHDOG" -> REG_STATUS_WDT
      [] reason = "COUNTDOWN_TIMER" -> REG_STATUS_TIM
      [] reason = "ALARM" -> REG_STATUS_ALM
      [] OTHER -> 0

\* the data transactions of a call, in order
Transfers(log) == SelectSeq(log, LAMBDA e : e.k \in {"read", "write"})
Writes(log) == SelectSeq(log, LAMBDA e : e.k = "write")

\* C1: after updateWakeReason has read the status register successfully with
\* at least one of the four wake conditions present, the reason it reports
\* and stores is the highest-priority condition present, in the order
\* Watchdog > DeepPowerDown > CountdownTimer > Alarm.
C1_ReportsHighestPriority ==
    (/\ last.op = "updateWakeReason"
     /\ last.ok
     /\ HighestPresent(last.pre.regs) # "UNKNOWN")
    => /\ last.reason = HighestPresent(last.pre.regs)
       /\ wakeReason = HighestPresent(last.pre.regs)

\* C2: updateWakeReason leaves the registers as they were except that the
\* status bit of the reason it reports is cleared; when it reports
\* DeepPowerDown it writes nothing and every register keeps its value.
C2_ClearsExactlyReportedBit ==
    (last.op = "updateWakeReason" /\ last.reason # "")
    => IF last.reason = "DEEP_POWER_DOWN"
       THEN Writes(last.log) = <<>> /\ regs = last.pre.regs
       ELSE regs = [last.pre.regs EXCEPT
                       ![REG_STATUS] = BitAnd(@, Not8(StatusBitOf(last.reason)))]

\* C3: when updateWakeReason succeeds and none of the four wake conditions is
\* present, the stored wake reason is UNKNOWN afterwards, whatever it was.
C3_NoConditionGivesUnknown ==
    (/\ last.op = "updateWakeReason"
     /\ last.ok
     /\ HighestPresent(last.pre.regs) = "UNKNOWN")
    => wakeReason = "UNKNOWN"

(***************************************************************************)
(* RAM store: properties                                                   *)
(***************************************************************************)
\* the chunk transfers of a RAM call: its transactions on the RAM window
Chunks(log) == SelectSeq(Transfers(log), LAMBDA e : e.addr >= REG_ALT_RAM)

\* the RAM address chunk j of a call that started at address a begins at
RECURSIVE ChunkStart(_, _, _)
ChunkStart(chunks, a, j) ==
    IF j = 1 THEN a ELSE ChunkStart(chunks, a, j - 1) + chunks[j - 1].num

\* RAM address i lies outside the range of n bytes at a
Outside(i, a, n) == i < a \/ i >= a + n

\* C4: when writeRam(a, data, n) returns true and the readRam(a, buf, n) that
\* follows it returns true, buf equals data and every RAM byte outside
\* a .. a+n-1 has the value it had before the write.
C4_RamRoundTrip ==
    (/\ last.op = "readRam" /\ last.ok
     /\ before.op = "writeRam" /\ before.ok
     /\ last.a = before.a /\ last.n = before.n)
    => /\ last.buf = before.data
       /\ \A i \in 0..(RamSize - 1) :
              Outside(i, before.a, before.n) => ram[i] = before.pre.ram[i]

\* C5: every chunk readRam transfers has at most 32 bytes and every chunk
\* writeRam transfers at most 31; a chunk that starts below RAM address 128
\* ends at or below it; when the chunk is transferred the bank-select bit XADA
\* is 1 exactly if the chunk starts at RAM address 128 or above; and the chunk
\* is transferred at register 0x80 + (start mod 128).
C5_ChunkDiscipline ==
    last.op \in {"readRam", "writeRam"}
    => LET chunks == Chunks(last.log)
       IN  \A j \in 1..Len(chunks) :
               LET start == ChunkStart(chunks, last.a, j)
               IN  /\ chunks[j].k = (IF last.op = "readRam" THEN "read" ELSE "write")
                   /\ chunks[j].num <= (IF last.op = "readRam" THEN 32 ELSE 31)
                   /\ start < 128 => start + chunks[j].num <= 128
                   /\ chunks[j].xada = (IF start >= 128 THEN 1 ELSE 0)
                   /\ chunks[j].addr = REG_ALT_RAM + (start % 128)

\* C6: when eraseRam returns true every RAM byte is zero, and a readRam that
\* follows it and returns true stores only zero bytes; an eraseRam one of whose
\* chunk writes fails returns false and transfers nothing after that chunk.
C6_EraseZeroesRam ==
    /\ (last.op = "eraseRam" /\ last.ok)
       => \A i \in 0..(RamSize - 1) : ram[i] = 0
    /\ (last.op = "readRam" /\ last.ok /\ before.op = "eraseRam" /\ before.ok)
       => \A i \in 1..Len(last.buf) : last.buf[i] = 0
    /\ last.op = "eraseRam"
       => LET t == Transfers(last.log)
          IN  \A j \in 1..Len(t) :
                  (t[j].k = "write" /\ t[j].addr >= REG_ALT_RAM /\ ~t[j].ok)
                  => ~last.ok /\ j = Len(t)

(***************************************************************************)
(* Watchdog controller and periodic tick: properties                       *)
(***************************************************************************)
\* the writes of a call to the watchdog register
WdtWrites(log) == SelectSeq(Writes(log), LAMBDA e : e.addr = REG_WDT)

\* the fields of a watchdog register value: reset enable (bit 7), period
\* (bits 6..2) and clock select (bits 1..0)
WdtResetField(v) == v \div 128
WdtPeriodField(v) == (v \div 4) % 32
WdtClockField(v) == v % 4

Clamp(x, lo, hi) == IF x < lo THEN lo ELSE IF x > hi THEN hi ELSE x

\* C7: setWDT(n) with n > 0 issues one write, to the watchdog register, of a
\* value with reset enable set, the 1/4 Hz clock selected and the period field
\* clamp(n div 4, 1, 31); the register holds that value when the write
\* succeeds; the period 4 * field is within 4..124 s, 4 s for n = 3 and 124 s
\* for n = 200.
C7_WatchdogPeriodField ==
    (last.op = "setWDT" /\ last.a > 0)
    => /\ Len(Transfers(last.log)) = 1
       /\ Len(WdtWrites(last.log)) = 1
       /\ LET v == WdtWrites(last.log)[1].data[1]
          IN  /\ WdtResetField(v) = 1
              /\ WdtClockField(v) = REG_WDT_WRB_1_4_HZ
              /\ WdtPeriodField(v) = Clamp(last.a \div 4, 1, 31)
              /\ 4 * WdtPeriodField(v) \in 4..124
              /\ last.a = 3 => 4 * WdtPeriodField(v) = 4
              /\ last.a = 200 => 4 * WdtPeriodField(v) = 124
              /\ last.ok => regs[REG_WDT] = v

\* setWDT(200) succeeded and the register holds reset enable, period field 31
\* and the 1/4 Hz clock
C7_Reached ==
    /\ last.op = "setWDT" /\ last.a = 200 /\ last.ok
    /\ regs[REG_WDT] = 255

\* C8: after setWDT(n) with n > 0 the refresh cadence in ms is half of the
\* period written to the watchdog register (4 s times the period field);
\* after setWDT(0) the cadence is 0; and a loop() that starts with cadence 0
\* writes nothing to the watchdog register and records no refresh.
C8_CadenceIsHalfPeriod ==
    /\ (last.op = "setWDT" /\ last.a > 0)
       => /\ WdtWrites(last.log) # <<>>
          /\ 2 * watchdogUpdatePeriod
               = 4 * WdtPeriodField(WdtWrites(last.log)[1].data[1]) * 1000
    /\ (last.op = "setWDT" /\ last.a = 0) => watchdogUpdatePeriod = 0
    /\ (last.op = "loop" /\ last.pre.h.watchdogUpdatePeriod = 0)
       => /\ WdtWrites(last.log) = <<>>
          /\ autoAt = last.pre.h.autoAt
          /\ lastWatchdogMillis = last.pre.h.lastWatchdogMillis

\* setWDT(8) succeeded: the period is 8 s and the cadence 4000 ms
C8_Reached ==
    /\ last.op = "setWDT" /\ last.a = 8 /\ last.ok
    /\ WdtPeriodField(regs[REG_WDT]) = 2
    /\ watchdogUpdatePeriod = 4000

\* the uptime of the last automatic refresh of a handle, or of its
\* construction when it has made none
LastRefreshAt(h) == IF h.autoAt = -1 THEN 0 ELSE h.autoAt

\* C9: a loop() that writes the watchdog register started with a non-zero
\* cadence and at least that cadence after the last automatic refresh (after
\* the construction of the handle when there was none); every other loop()
\* writes nothing to the watchdog register.
C9_RefreshOnlyWhenDue ==
    last.op = "loop"
    => LET h == last.pre.h
       IN  /\ WdtWrites(last.log) # <<>>
              => /\ h.watchdogUpdatePeriod # 0
                 /\ clock - LastRefreshAt(h) >= Units(h.watchdogUpdatePeriod)
                 /\ Len(WdtWrites(last.log)) = 1
                 /\ autoAt = clock
           /\ WdtWrites(last.log) = <<>> => autoAt = h.autoAt

\* a second automatic refresh, made after millis() wrapped around
C9_Reached ==
    /\ last.op = "loop"
    /\ WdtWrites(last.log) # <<>>
    /\ last.pre.h.autoAt # -1
    /\ last.pre.h.autoAt < Wrap32
    /\ clock >= Wrap32

\* C10: setWDT(-1) on a handle whose watchdog period is set writes the value
\* of that period to the watchdog register; on a handle on which no period
\* was ever set it issues no bus transaction and leaves the registers and the
\* watchdog fields of the handle as they were.
C10_ResumeNeverSetIsNoOp ==
    (last.op = "setWDT" /\ last.a < 0)
    => LET h == last.pre.h
       IN  /\ h.watchdogSecs > 0
              => /\ Len(WdtWrites(last.log)) = 1
                 /\ WdtPeriodField(WdtWrites(last.log)[1].data[1])
                      = Clamp(h.watchdogSecs \div 4, 1, 31)
           /\ ~h.everSet
              => /\ Transfers(last.log) = <<>>
                 /\ regs = last.pre.regs
                 /\ watchdogSecs = h.watchdogSecs
                 /\ watchdogUpdatePeriod = h.watchdogUpdatePeriod

\* C11: when setWDT(0) succeeds on a handle whose watchdog is set and enabled
\* on the chip and the setWDT(-1) that follows it succeeds, the watchdog
\* register holds the value it held before the stop and the refresh cadence is
\* the one the handle had before the stop (not 0).
C11_ResumeRestoresWatchdog ==
    (/\ last.op = "setWDT" /\ last.a < 0 /\ last.ok
     /\ before.op = "setWDT" /\ before.a = 0 /\ before.ok
     /\ before.pre.h.watchdogSecs > 0
     /\ before.pre.regs[REG_WDT] = WdtValue(FourSecs(before.pre.h.watchdogSecs)))
    => /\ regs[REG_WDT] = before.pre.regs[REG_WDT]
       /\ watchdogUpdatePeriod = before.pre.h.watchdogUpdatePeriod
       /\ watchdogUpdatePeriod # 0

\* C12: when the reset event is delivered while the watchdog register is not
\* 0 and no transaction of the handler fails, the watchdog register is 0 and
\* the refresh cadence is 0 when the handler returns, so that no later loop()
\* writes the watchdog register.
C12_ResetEventDisablesWatchdog ==
    (/\ last.op = "systemEvent"
     /\ last.ok
     /\ last.pre.regs[REG_WDT] # 0)
    => /\ regs[REG_WDT] = 0
       /\ watchdogUpdatePeriod = 0

\* the call issued the first transaction of setRtcFromTm, the read of the
\* control register in which the write-RTC bit is set
PushIn(log) == \E i \in 1..Len(log) : log[i].k = "read" /\ log[i].addr = REG_CTRL_1

At(W, addr) == {i \in 1..Len(W) : W[i].addr = addr}

\* the positions of the writes to the timer control register that carry the
\* timer-enable bit, and of those that do not
Enables(W) ==
    {i \in At(W, REG_TIMER_CTRL) : BitAnd(W[i].data[1], REG_TIMER_CTRL_TE) # 0}
Stops(W) ==
    {i \in At(W, REG_TIMER_CTRL) : BitAnd(W[i].data[1], REG_TIMER_CTRL_TE) = 0}

CountdownCall == last.op \in {"setCountdownTimer", "interruptCountdownTimer"}

\* C13: setCountdownTimer and interruptCountdownTimer write the value limited
\* to 1..255 to the timer register, for every int argument, and enable the
\* timer with the 1/60 Hz clock for minutes and the 1 Hz clock for seconds;
\* after a call that returned true the chip holds just that.
C13_TimerDurationAndClock ==
    CountdownCall =>
        LET W == Writes(last.log)
            tfs == IF last.reason = "minutes" THEN REG_TIMER_CTRL_TFS_1_60
                   ELSE REG_TIMER_CTRL_TFS_1
        IN  /\ \A d \in At(W, REG_TIMER) : W[d].data = <<Clamp(last.a, 1, 255)>>
            /\ \A e \in Enables(W) : W[e].data = <<REG_TIMER_CTRL_TE + tfs>>
            /\ last.ok =>
                 /\ At(W, REG_TIMER) # {}
                 /\ regs[REG_TIMER] = Clamp(last.a, 1, 255)
                 /\ regs[REG_TIMER_CTRL] = REG_TIMER_CTRL_TE + tfs

\* both units and arguments below, inside and above the range were armed
C13_Reached ==
    /\ last.op = "interruptCountdownTimer" /\ last.ok
    /\ last.a = 9000 /\ last.reason = "minutes"
    /\ regs[REG_TIMER] = 255
    /\ last.pre.regs[REG_TIMER] = 30

\* C14: arming the countdown timer writes in a fixed order: REG_WDT = 0 first
\* (interruptCountdownTimer), then the status register is cleared, then the
\* timer is stopped (TE = 0), then the duration is written, then the timer
\* interrupt is enabled, and the one write that sets TE is the last write; the
\* duration is written only while the chip's TE bit is 0.
C14_CountdownArmingOrder ==
    CountdownCall =>
        LET W == Writes(last.log)
            Done(i) == W[i].ok
        IN  /\ last.op = "interruptCountdownTimer" /\ Len(W) > 0
                  => W[1].addr = REG_WDT /\ W[1].data = <<0>>
            /\ \A s \in At(W, REG_STATUS) :
                 /\ W[s].data = <<0>>
                 /\ \A w \in At(W, REG_WDT) : w < s
            /\ \A p \in Stops(W) : \E s \in At(W, REG_STATUS) : s < p /\ Done(s)
            /\ \A d \in At(W, REG_TIMER) :
                 /\ \E p \in Stops(W) : p < d /\ Done(p)
                 /\ \A e \in Enables(W) : d < e
            /\ \A m \in At(W, REG_INT_MASK) :
                 /\ \E d \in At(W, REG_TIMER) : d < m /\ Done(d)
                 /\ BitAnd(W[m].data[1], REG_INT_MASK_TIE) # 0
            /\ \A e \in Enables(W) :
                 /\ e = Len(W)
                 /\ \E d \in At(W, REG_TIMER) : d < e /\ Done(d)
                 /\ Done(e) => BitAnd(regs[REG_INT_MASK], REG_INT_MASK_TIE) # 0
            /\ last.ok =>
                 /\ Enables(W) # {}
                 /\ regs[REG_STATUS] = 0
                 /\ last.op = "interruptCountdownTimer" => regs[REG_WDT] = 0

\* a running timer was armed again on a chip whose watchdog was armed
C14_Reached ==
    /\ last.op = "interruptCountdownTimer" /\ last.ok
    /\ BitAnd(last.pre.regs[REG_TIMER_CTRL], REG_TIMER_CTRL_TE) # 0
    /\ last.pre.regs[REG_WDT] # 0
    /\ last.pre.regs[REG_STATUS] # 0
    /\ Len(Writes(last.log)) >= 5

(***************************************************************************)
(* Alarm                                                                   *)
(***************************************************************************)
AlarmCall == last.op \in {"repeatingInterrupt", "interruptAtTm"}

\* the match selector (RPT field) and the timer-enable bit of a register file
RepeatField(r) == BitAnd(r[REG_TIMER_CTRL], REG_TIMER_CTRL_RPT_MASK)
TimerEnabled(r) == BitAnd(r[REG_TIMER_CTRL], REG_TIMER_CTRL_TE) # 0

\* C15: only the wake event armed last is active: after repeatingInterrupt or
\* interruptAtTm returned true the countdown timer is disarmed (TE = 0), and
\* after interruptCountdownTimer returned true the alarm is disarmed (match
\* selector disabled).
C15_ArmedWakeExclusive ==
    /\ AlarmCall /\ last.ok => ~TimerEnabled(regs)
    /\ last.op = "interruptCountdownTimer" /\ last.ok
           => RepeatField(regs) = REG_TIMER_CTRL_RPT_DIS

\* two decimal digits as a BCD byte
Bcd(v) == (v \div 10) * 16 + (v % 10)

\* the alarm registers for a struct tm: hundredths, seconds, minutes, hours,
\* day, month, weekday
AlarmImage(t) ==
    <<0, Bcd(t.sec), Bcd(t.min), Bcd(t.hour), Bcd(t.mday), Bcd(t.mon + 1), Bcd(t.wday)>>

\* the bits of register addr outside mask are the same in r and q
SameOutside(r, q, addr, mask) ==
    BitAnd(r[addr], Not8(mask)) = BitAnd(q[addr], Not8(mask))

AllDone(log) == \A i \in 1..Len(log) : log[i].ok

\* C17: resetConfig with RESET_PRESERVE_REPEATING_TIMER leaves the RPT field
\* of the timer control register as it was, whatever it was; without the flag
\* the register is set to its default.
C17_ResetPreservesRepeat ==
    last.op = "resetConfig" /\ AllDone(last.log) =>
        IF (last.a \div RESET_PRESERVE_REPEATING_TIMER) % 2 = 1
        THEN RepeatField(regs) = RepeatField(last.pre.regs)
        ELSE regs[REG_TIMER_CTRL] = REG_TIMER_CTRL_DEFAULT

(***************************************************************************)
(* Deep power down                                                         *)
(***************************************************************************)
\* deepPowerDown is back in its caller
Returned == last.op = "deepPowerDown" /\ pc = "run"

\* deepPowerDown is over without having returned: System.reset() was called,
\* or the host lost power and started again
Over == pc = "reset" \/ last.op = "hostReboot"

\* C18: deepPowerDown returns to its caller only with false, and only when a
\* step of the arming sequence failed; when every step succeeded it polls the
\* sleep control register and, unless the host loses power first, ends in
\* System.reset().
C18_NeverReturnsNormally ==
    /\ [](Returned => ~last.ok /\ ~AllDone(last.log))
    /\ [](last.op = "deepPowerDown" /\ AllDone(last.log) => pc = "polling")
    /\ [](last.op = "poll"
            => /\ pc = "polling"
               /\ Len(Transfers(last.log)) = 1
               /\ Transfers(last.log)[1].k = "read"
               /\ Transfers(last.log)[1].addr = REG_SLEEP_CTRL)
    /\ (pc = "polling") ~> Over

\* a deepPowerDown(3) started 2 s before millis() wraps polled three times,
\* across the wrap, and called System.reset()
C18_Reached ==
    /\ pc = "reset"
    /\ last.op = "System.reset"
    /\ clock = Wrap32 + Units(1000)

\* the first and the last position of a set of positions
First(S) == CHOOSE i \in S : \A j \in S : i <= j
Final(S) == CHOOSE i \in S : \A j \in S : j <= i

\* C19: in a deepPowerDown whose steps all succeed REG_WDT = 0 is the first
\* write; the wake-pin settings (REG_OCTRL, OUT of REG_CTRL_1, OUT1S of
\* REG_CTRL_2) and the square-wave setting precede the timer; the countdown
\* timer is enabled before the power-switch step on REG_CTRL_1, before the
\* sleep routing step on REG_CTRL_2 and before the sleep request; and the
\* write of SLP | SLRES to REG_SLEEP_CTRL is the last write.
C19_PowerDownOrder ==
    last.op = "deepPowerDown" /\ last.ok =>
        LET T == Transfers(last.log)
            W == Writes(last.log)
            timer == At(T, REG_STATUS) \cup At(T, REG_TIMER_CTRL) \cup At(T, REG_TIMER)
                     \cup At(T, REG_INT_MASK)
            armed == {i \in At(T, REG_TIMER_CTRL) :
                        T[i].k = "write" /\ BitAnd(T[i].data[1], REG_TIMER_CTRL_TE) # 0}
            Early(i) == i < First(timer)
            Late(i) == i > Final(armed)
        IN  /\ W[1].addr = REG_WDT /\ W[1].data = <<0>>
            /\ At(W, REG_WDT) = {1}
            /\ timer # {} /\ armed # {} /\ Final(armed) = Final(timer)
            /\ At(T, REG_OCTRL) # {} /\ \A i \in At(T, REG_OCTRL) : Early(i)
            /\ At(W, REG_SQW) # {} /\ \A i \in At(T, REG_SQW) : Early(i)
            /\ \A i \in At(T, REG_CTRL_1) \cup At(T, REG_CTRL_2) : Early(i) \/ Late(i)
            /\ \E i \in At(T, REG_CTRL_1) : Early(i)
            /\ \E i \in At(T, REG_CTRL_2) : Early(i)
            /\ \E i \in At(T, REG_CTRL_1), j \in At(T, REG_OSC_CTRL), k \in At(T, REG_CTRL_2) :
                 Late(i) /\ i < j /\ j < k
            /\ \A i \in At(T, REG_OSC_CTRL) \cup At(T, REG_SLEEP_CTRL) : Late(i)
            /\ At(W, REG_SLEEP_CTRL) = {Len(W)}
            /\ W[Len(W)].data = <<REG_SLEEP_CTRL_SLP + REG_SLEEP_CTRL_SLRES>>
            /\ T[Len(T)] = W[Len(W)]
            /\ BitAnd(regs[REG_CTRL_1], REG_CTRL_1_PWR2) # 0
            /\ BitAnd(regs[REG_CTRL_2], REG_CTRL_2_OUT2S_MASK) = REG_CTRL_2_OUT2S_SLEEP
            /\ TimerEnabled(regs)

\* all steps of a deepPowerDown succeeded on a chip whose watchdog and timer
\* were running
C19_Reached ==
    /\ last.op = "deepPowerDown" /\ last.ok
    /\ last.pre.regs[REG_WDT] # 0
    /\ TimerEnabled(last.pre.regs)
    /\ pc = "polling"
    /\ regs[REG_SLEEP_CTRL] = REG_SLEEP_CTRL_SLP + REG_SLEEP_CTRL_SLRES

(***************************************************************************)
(* Read-modify-write                                                       *)
(***************************************************************************)
\* C20: maskRegister(addr, and, or) always reads the register first; when the
\* read fails it writes nothing and returns false; when (old & and) | or
\* differs from old it writes just that value to the register, and otherwise
\* it writes nothing; after a call that returned true the register holds
\* (old & and) | or, and no other register changes in any case.
C20_MaskRegister ==
    last.op = "maskRegister" =>
        LET T == Transfers(last.log)
            pre == last.pre.regs
            old == pre[last.a]
            new == BitOr(BitAnd(old, last.data[1]), last.data[2])
        IN  /\ Len(T) \in {1, 2}
            /\ T[1].k = "read" /\ T[1].addr = last.a /\ T[1].num = 1
            /\ ~T[1].ok => Len(T) = 1 /\ ~last.ok /\ regs = pre
            /\ T[1].ok => /\ T[1].data = <<old>>
                          /\ Len(T) = 2 <=> new # old
            /\ Len(T) = 2 => /\ T[2].k = "write" /\ T[2].addr = last.a
                             /\ T[2].data = <<new>>
            /\ last.ok <=> AllDone(last.log)
            /\ last.ok => regs[last.a] = new
            /\ \A b \in 0..(NumRegs - 1) : b # last.a => regs[b] = pre[b]

\* a call cleared some bits of a register, set others and kept the rest
C20_Reached ==
    /\ last.op = "maskRegister" /\ last.ok
    /\ Len(Transfers(last.log)) = 2
    /\ BitAnd(last.pre.regs[last.a], Not8(regs[last.a])) # 0
    /\ BitAnd(Not8(last.pre.regs[last.a]), regs[last.a]) # 0
    /\ BitAnd(last.pre.regs[last.a], regs[last.a]) # 0

(***************************************************************************)
(* Bus lock and real-time clock: properties                                *)
(***************************************************************************)
\* the positions of the data transactions in a log
TransferAt(log) == {i \in 1..Len(log) : log[i].k \in {"read", "write"}}

\* the bus lock is held from the first data transaction of a log to the last:
\* the lock depth is at least 1 at every event between them
HeldThroughout(log) ==
    TransferAt(log) # {}
    => \A i \in First(TransferAt(log))..Final(TransferAt(log)) : log[i].depth >= 1

\* the lock depth at the end of a log that started at depth 0
FinalDepth(log) == IF log = <<>> THEN 0 ELSE log[Len(log)].depth

\* C21: maskRegister and setRtcFromTm called with lock = true, resetConfig,
\* and readRam, writeRam and eraseRam called with lock = true hold the bus
\* lock from their first bus transaction to their last: the lock depth is at
\* least 1 at every transaction and at every point between two transactions,
\* so that no transaction of a bus user that takes the lock can fall between
\* the read and the write of a mask or between a bank select and the transfer
\* of its chunk; the lock is released when the call returns.
C21_CompositeHoldsLock ==
    (\/ last.op \in {"resetConfig", "readRam", "writeRam", "eraseRam"}
     \/ last.op \in {"maskRegister", "setRtcFromTm"} /\ last.reason = "lock")
    => /\ HeldThroughout(last.log)
       /\ FinalDepth(last.log) = 0
       /\ last.log # <<>> => last.log[1].k = "lock" /\ last.log[Len(last.log)].k = "unlock"

\* a writeRam across the bank boundary selected each bank and transferred its
\* chunk, the bank selects taking the lock a second time
C21_Reached ==
    /\ last.op = "writeRam" /\ last.ok
    /\ Len(Chunks(last.log)) >= 2
    /\ \E i, j \in 1..Len(Chunks(last.log)) :
          Chunks(last.log)[i].xada = 0 /\ Chunks(last.log)[j].xada = 1
    /\ \E i \in 1..Len(last.log) : last.log[i].depth = 2
    /\ \E i \in 1..Len(last.log) : last.log[i].k = "write" /\ last.log[i].addr = REG_EXT_ADDR

OnCalendar(log) ==
    SelectSeq(Transfers(log), LAMBDA e : e.addr <= 7 /\ e.addr + e.num > 0)

\* the write-RTC bit of a register file
Wrtc(r) == r[REG_CTRL_1] % 2

\* C23: setRtcFromTm touches the calendar registers with at most one
\* transaction, a sequential write of 0 (hundredths) and the seven calendar
\* bytes made while WRTC is 1; with lock = true its first to its last
\* transaction are inside one lock hold; after a setRtcFromTm all of whose
\* transactions succeeded WRTC is 0, the calendar registers hold the bytes
\* written and isRTCSet() is true; getRtcAsTm touches the calendar registers
\* with at most one transaction, a sequential read of the eight bytes.
C23_CalendarWriteDiscipline ==
    /\ last.op = "setRtcFromTm" =>
          LET cal == OnCalendar(last.log)
              image == <<0>> \o tmToRegisters(last.data, TRUE)
          IN  /\ Len(cal) <= 1
              /\ \A i \in 1..Len(cal) :
                    /\ cal[i].k = "write" /\ cal[i].addr = REG_HUNDREDTH
                    /\ cal[i].num = 8 /\ cal[i].data = image
                    /\ cal[i].wrtc = 1
                    /\ cal[i].ok => \A a \in 0..7 : regs[a] = image[a + 1]
              /\ last.reason = "lock" => HeldThroughout(last.log)
              /\ last.ok => Len(cal) = 1
              /\ AllDone(last.log) =>
                    /\ last.ok
                    /\ Wrtc(regs) = 0
                    /\ isRTCSet(Ctx, {}).result
    /\ last.op = "getRtcAsTm" =>
          LET cal == OnCalendar(last.log)
          IN  /\ Len(cal) <= 1
              /\ \A i \in 1..Len(cal) :
                    cal[i].k = "read" /\ cal[i].addr = REG_HUNDREDTH /\ cal[i].num = 8
              /\ last.ok => Len(cal) = 1 /\ Wrtc(last.pre.regs) = 0

\* the clock was set on a chip whose WRTC bit was 0, so that the bit was set,
\* the calendar written and the bit cleared again
C23_Reached ==
    /\ last.op = "setRtcFromTm" /\ last.reason = "lock" /\ AllDone(last.log)
    /\ Wrtc(last.pre.regs) = 0
    /\ Len(Transfers(last.log)) = 5
    /\ regs[REG_HUNDREDTH + 5] = 18
    /\ regs[REG_HUNDREDTH + 5] # last.pre.regs[REG_HUNDREDTH + 5]

\* C26: when the clock has not been set (WRTC is 1) and the bus works,
\* getRtcAsTm hands back a calendar whose fields are all zero and reports no
\* failure.
C26_UnsetClockReadsZero ==
    (last.op = "getRtcAsTm" /\ Wrtc(last.pre.regs) = 1 /\ AllDone(last.log))
    => /\ last.data = ZeroTm
       /\ last.ok

\* setup() was called with no AB1805 to find: nothing answers, or an identity
\* register holds another value
Absent(pre) ==
    \/ ~present
    \/ pre.regs[REG_ID0] # REG_ID0_AB18XX
    \/ pre.regs[REG_ID1] # REG_ID1_ABXX05

\* no transfer of the log was acknowledged
AllFailed(log) ==
    \A i \in 1..Len(log) : log[i].k \in {"read", "write"} => ~log[i].ok

\* C25: setup() called with the chip absent (nothing answers on the bus, or an
\* identity register holds an unexpected value) returns with the chip not
\* detected; whenever it does not detect the chip it leaves the wake reason
\* UNKNOWN, does not call Time.setTime(), so the host clock stays as it was,
\* writes no register, and has registered the reset handler.  Afterwards, on
\* the bus where nothing answers, every operation of the register access
\* layer and updateWakeReason() return false, no transfer being acknowledged,
\* and leave the wake reason UNKNOWN and the registers as they were.
C25_AbsentChipDegrades ==
    /\ last.op = "setup" =>
        /\ Absent(last.pre) => ~last.data.detected
        /\ ~last.data.detected =>
            /\ wakeReason = "UNKNOWN"
            /\ last.data.setTime = "none"
            /\ ~timeValid
            /\ registered
            /\ regs = last.pre.regs
            /\ \A i \in 1..Len(last.log) : last.log[i].k # "write"
    /\ (~present /\ last.op \in RegisterOps \cup {"updateWakeReason"}) =>
        /\ ~last.ok
        /\ AllFailed(last.log)
        /\ wakeReason = "UNKNOWN"
        /\ wakeReason = last.pre.h.wakeReason
        /\ regs = last.pre.regs

\* setup() has returned on the bus where nothing answers, the handler
\* registered and the host clock not set, and a register write after it failed
C25_Reached ==
    /\ ~present
    /\ registered /\ ~timeValid
    /\ last.op = "writeRegister" /\ ~last.ok
    /\ wakeReason = "UNKNOWN"

(***************************************************************************)
(* Error reporting of the composite operations                             *)
(***************************************************************************)
\* the call returned true exactly if every transaction succeeded, and a
\* transaction that failed was followed by no write
AbortedAtFirstFailure ==
    LET T == Transfers(last.log)
    IN  /\ last.ok <=> AllDone(last.log)
        /\ \A j \in 1..Len(T) :
               ~T[j].ok => \A k \in (j + 1)..Len(T) : T[k].k # "write"

\* C27: interruptCountdownTimer, setCountdownTimer, repeatingInterrupt,
\* clearRepeatingInterrupt and deepPowerDown return false as soon as one of
\* their bus transactions fails and write no register after it; they return
\* true only if every transaction succeeded.
C27_CompositeAbortsOnFailure ==
    last.op \in {"interruptCountdownTimer", "setCountdownTimer", "repeatingInterrupt",
                 "interruptAtTm", "clearRepeatingInterrupt", "deepPowerDown"}
    => AbortedAtFirstFailure

\* C28: resetConfig returns true when every register write succeeded and
\* false when one failed, and it writes no register after a write that failed.
C28_ResetConfigReportsFailure ==
    last.op = "resetConfig" => AbortedAtFirstFailure

(***************************************************************************)
(* Time codec: properties                                                  *)
(***************************************************************************)
Digit(x) == x \in 0..9

\* C29: bcdToValue(valueToBcd(v)) = v for every v in 0..99, and both nibbles
\* of valueToBcd(v) are decimal digits.
C29_BcdRoundTrip ==
    /\ (last.op = "valueToBcd" /\ last.a \in 0..99)
       => /\ last.n \in 0..255
          /\ Digit(last.n \div 16) /\ Digit(last.n % 16)
    /\ (last.op = "bcdToValue" /\ before.op = "valueToBcd" /\ before.a \in 0..99)
       => /\ last.a = before.n
          /\ last.n = before.a

\* 99 was encoded as 0x99 and decoded again
C29_Reached ==
    /\ last.op = "bcdToValue" /\ before.op = "valueToBcd"
    /\ before.a = 99 /\ before.n = 153 /\ last.n = 99

\* a struct tm was encoded with its year and decoded again
RoundTrip ==
    /\ last.op = "registersToTm" /\ before.op = "tmToRegisters"
    /\ before.reason = "year" /\ last.buf = before.buf

\* C30 as stated: registersToTm(tmToRegisters(t, true), true) has the seconds,
\* minutes, hours, day, month, year and weekday of t, for every t whose fields
\* are within their documented ranges, the year being any number of years
\* since 1900; the month is on the wire as 1..12.
C30_CalendarRoundTrip ==
    RoundTrip =>
        /\ last.data = before.data
        /\ bcdToValue(before.buf[5]) = before.data.mon + 1

\* C30 for the years the chip can hold: the same for every t whose year is
\* 2000..2099 (tm_year 100..199); for any other year the result has the year
\* of the 2000s with the same last two digits.
C30_CalendarRoundTrip2000s ==
    RoundTrip =>
        /\ before.data.year \in 100..199 => last.data = before.data
        /\ last.data = [before.data EXCEPT !.year = 100 + (before.data.year % 100)]
        /\ bcdToValue(before.buf[5]) = before.data.mon + 1
        /\ bcdToValue(before.buf[5]) \in 1..12

\* 23:59:59 on Saturday 31 December 2099 made the round trip
C30_Reached ==
    /\ RoundTrip
    /\ before.data = [sec |-> 59, min |-> 59, hour |-> 23, mday |-> 31, mon |-> 11,
                      year |-> 199, wday |-> 6]
    /\ before.buf = <<89, 89, 35, 49, 18, 153, 6>>
    /\ last.data = before.data

(***************************************************************************)
(* Handle invariants                                                       *)
(***************************************************************************)
\* C31: in every reachable state the watchdog period stored in the handle
\* (watchdogSecs) is 0 or lies within 4..124 seconds, whatever argument
\* setWDT was called with.
C31_StoredPeriodInRange == watchdogSecs = 0 \/ watchdogSecs \in 4..124

(***************************************************************************)
(* Chip detection with the FOUT pin                                        *)
(***************************************************************************)
\* C32: with the FOUT pin configured, detectChip reads the identity registers
\* only after the pin was read HIGH or after 1 second has passed since
\* detectChip was called, whatever the uptime at the call; while it waits not
\* more than 1 second (and one turn of the loop) has passed since the call.
C32_WaitsForPinOrOneSecond ==
    /\ last.op = "detectChip" =>
          last.data.ready \/ last.data.waited >= Units(1000)
    /\ pc = "fout" => clock - last.pre.clock < Units(1000) + Units(400)

(***************************************************************************)
(* Battery check: properties                                               *)
(***************************************************************************)
\* every transfer of the log was acknowledged
AllOk(log) ==
    \A i \in 1..Len(log) : log[i].k \in {"read", "write"} => log[i].ok

\* C33: when all bus transactions succeed the trickle-charger register holds
\* the same value after checkVBAT as before it, for every prior value of the
\* register.
C33_CheckVbatRestoresTrickle ==
    (last.op = "checkVBAT" /\ AllOk(last.log))
        => regs[REG_TRICKLE] = last.pre.regs[REG_TRICKLE]

(***************************************************************************)
(* Real-time clock and RAM: error reporting                                *)
(***************************************************************************)
\* C34: after a setRtcFromTm that returned true the WRTC bit is clear, so
\* that isRTCSet() is true, and the calendar registers hold the encoded time:
\* a failure of the set-WRTC step, of the calendar write or of the final
\* clear-WRTC step makes it return false.
C34_TrueOnlyWhenClockSet ==
    (last.op = "setRtcFromTm" /\ last.ok)
        => /\ BitAnd(regs[REG_CTRL_1], REG_CTRL_1_WRTC) = 0
           /\ [i \in 1..7 |-> regs[REG_HUNDREDTH + i]] = tmToRegisters(last.data, TRUE)

\* C35: in readRam and writeRam a failed transfer of the bank-select step
\* (the read or the write of REG_EXT_ADDR) ends the operation: no chunk is
\* transferred after it and the operation returns false; a true return
\* implies that every chunk was transferred while the bank-select bit matched
\* the chunk's address.
C35_BankSelectFailureAborts ==
    last.op \in {"readRam", "writeRam"}
    => LET transfers == Transfers(last.log)
           chunks == Chunks(last.log)
       IN  /\ \A i \in 1..Len(transfers) :
                 (transfers[i].addr = REG_EXT_ADDR /\ ~transfers[i].ok)
                 => /\ ~last.ok
                    /\ \A j \in (i + 1)..Len(transfers) :
                          transfers[j].addr < REG_ALT_RAM
           /\ last.ok =>
                 \A j \in 1..Len(chunks) :
                     chunks[j].xada = (IF ChunkStart(chunks, last.a, j) >= 128
                                       THEN 1 ELSE 0)

(***************************************************************************)
(* Lock balance                                                            *)
(***************************************************************************)
\* how often the log takes (k = "lock") or releases (k = "unlock") the lock
Count(log, k) == Len(SelectSeq(log, LAMBDA e : e.k = k))

\* C36: every public operation releases the bus lock as often as it took
\* it, on every path: in the log of the call, which starts at depth 0, the
\* lock is taken and released the same number of times, the depth after the
\* last event is 0 and the depth is never negative.
C36_LockBalanced ==
    /\ Count(last.log, "lock") = Count(last.log, "unlock")
    /\ FinalDepth(last.log) = 0
    /\ \A i \in 1..Len(last.log) : last.log[i].depth >= 0

\* a readRam that failed in its second chunk, after nested lock holds, has
\* released the lock
C36_Reached ==
    /\ last.op = "readRam" /\ ~last.ok
    /\ Len(Chunks(last.log)) = 2
    /\ \E i \in 1..Len(last.log) : last.log[i].depth = 2
    /\ Count(last.log, "lock") >= 3
    /\ FinalDepth(last.log) = 0

(***************************************************************************)
(* Watchdog servicing                                                      *)
(***************************************************************************)
\* the uptime of the last write of the watchdog register before a loop():
\* the setWDT call the loop() calls follow, or a later refresh made by loop()
LastWdtWrite(setCall, h) ==
    IF h.autoAt > setCall.pre.clock THEN h.autoAt ELSE setCall.pre.clock

\* C37: after a setWDT(n) with n > 0 that succeeded, loop() being called at
\* intervals shorter than half the period the chip runs and the bus working,
\* a loop() that refreshes the watchdog does so before that period has passed
\* since the watchdog register was last written.
C37_ServicedBeforeExpiry ==
    (/\ last.op = "loop"
     /\ WdtWrites(last.log) # <<>>
     /\ before.op = "setWDT" /\ before.a > 0 /\ before.ok)
    => clock - LastWdtWrite(before, last.pre.h)
         < Units(4000 * WdtPeriodField(regs[REG_WDT]))

\* the handle holds a period and a cadence exactly when the watchdog register
\* holds a non-zero value
ViewMatches(h, r) ==
    /\ h.watchdogSecs # 0 <=> r[REG_WDT] # 0
    /\ h.watchdogUpdatePeriod # 0 <=> r[REG_WDT] # 0

\* C38: an operation (setWDT, stopWDT, resumeWDT, resetConfig, an arming
\* operation, loop) all of whose bus transactions succeed, started with the
\* handle's view of the watchdog matching the chip, ends with the view matching
\* the chip; and a loop() whose transactions succeed does not arm a watchdog
\* whose register held 0.
C38_HandleViewMatchesChip ==
    /\ (/\ last.op \in {"setWDT", "resetConfig", "interruptCountdownTimer", "loop"}
        /\ AllOk(last.log)
        /\ ViewMatches(last.pre.h, last.pre.regs))
       => ViewMatches(Handle, regs)
    /\ (last.op = "loop" /\ AllOk(last.log) /\ last.pre.regs[REG_WDT] = 0)
       => regs[REG_WDT] = 0

(***************************************************************************)
(* Deep power down: the fail-safe wait                                     *)
(***************************************************************************)
\* C39: while deepPowerDown waits for the power to go, its wait is pending
\* exactly as long as less time has passed since the sleep request than the
\* clamped duration (1..255 seconds) of the countdown timer it armed.
C39_WaitLastsTimerDuration ==
    pc = "polling"
    => (PollPending(Millis(clock), poll.start, poll.seconds)
        <=> (Millis(clock) - poll.start + Wrap32) % Wrap32
               < Units(1000 * TimerDuration(poll.seconds)))

(***************************************************************************)
(* setup(): the host clock                                                 *)
(***************************************************************************)
\* C40: setup() calls Time.setTime only when the chip was detected, the write
\* RTC bit was clear, the host time was not valid and getRtcAsTime returned
\* true, the time given being the one read from the chip; when the read
\* fails the host clock is left as it was.
C40_HostClockOnlyFromRtc ==
    last.op = "setup"
    => /\ last.data.setTime # "none"
          => /\ last.data.detected
             /\ BitAnd(last.pre.regs[REG_CTRL_1], REG_CTRL_1_WRTC) = 0
             /\ last.data.setTime = "rtc"
       /\ last.data.setTime # "rtc" => ~timeValid

====
